---- MODULE Spec2Model ----
(***************************************************************************)
(* Entry-list editors of soulstruct-gui.                                   *)
(*                                                                         *)
(*   SpecQt : the Qt BaseEditor with its QEntryRowList (range navigation   *)
(*            over the entries of the selected category).                  *)
(*   SpecTk : the Tk window with the AIEditor (goals of the selected map,  *)
(*            entry rows, active row, inline text / ID edit, script        *)
(*            editor) or the ParamsEditor (rows of the active param).      *)
(*   SpecTkMaps : the AIEditor over several maps, with the actions it      *)
(*            records for undo and redo.                                   *)
(*   SpecRow : one QEntryRow and the inline edit of its name.              *)
(*   SpecToolTip : one ToolTip bound to several widgets.                   *)
(*   SpecSuperFrame : one SuperFrame and its set_master blocks.            *)
(*   SpecDialog : one CustomDialog and the events that end it.             *)
(*   SpecRefresh : the AIEditor when goals leave the project's list.       *)
(*   SpecScripts : the AIEditor's script editor, confirm, compile, write   *)
(*            and the bulk buttons, on one map.                            *)
(*   SpecButtons : the AIEditor's script buttons under selection, reload,  *)
(*            decompile and map changes.                                   *)
(*   SpecGoalType : the AIEditor's goal type cycle.                        *)
(*   SpecSearch : the ParamsEditor's row search and its ParamFinder.       *)
(***************************************************************************)
EXTENDS Integers, Sequences, FiniteSets, TLC

VARIABLES
    \* ---- Qt BaseEditor / QEntryRowList ----
    categories,              \* BaseEditor.categories: category name -> number of entries
    selected_category_name,  \* BaseEditor.selected_category_name
    first_row_index,         \* QEntryRowList.first_row_index (value of the hidden QSpinBox)
    entry_count,             \* QEntryRowList.entry_count
    shown_rows,              \* entry ids of the QEntryRow widgets that are shown
    previous_button,         \* previous_button.isEnabled()
    next_button,             \* next_button.isEnabled()
    qt_call,                 \* the handler that ran last, with the state it started from
    qt_ops_run,              \* the handlers that have run since construction
    \* ---- AIEditor ----
    goals,                   \* get_selected_bnd().goals: list of LuaGoalScript
    entry_rows,              \* the displayed AIEntryRow contents (displayed_entry_count rows)
    active_row_index,        \* AIEditor.active_row_index (None when no row is active)
    e_entry_text_edit,       \* row of the inline text-edit Entry, None when absent
    e_entry_id_edit,         \* row of the inline ID-edit Entry, None when absent
    lua_script_editor,       \* text and state of the script editor
    buttons,                 \* state of the confirm / compile / write / reload buttons
    ai_call,                 \* the last handler call when it added a goal, changed an ID,
                             \* met an ID clash or refused an edit: its outcome and the
                             \* goals it started from
    selected_map_id,         \* AIEditor.selected_map_id
    map_choice,              \* the map the map_choice Combobox displays
    ai_other_maps,           \* self.ai[m].goals for the maps m that are not selected
    action_history,          \* the (undo, redo) pairs given to action_history.record_action
    scripts,                 \* the script side of the AIEditor: allow_decompile, the goals
                             \* with bytecode, the Decompile, 'Decompile All' and 'Write
                             \* All in Map' buttons, and the last script file written
    \* ---- ParamsEditor ----
    param_rows,              \* params.get_param(active_category).rows, in dictionary order
    param_entry_rows,        \* the displayed entry rows (ID and name)
    param_first_display_index,  \* ParamsEditor.first_display_index
    param_active_row_index,  \* ParamsEditor.active_row_index (None when no row is active)
    param_call,              \* the handler that ran last, with its outcome
    param_before,            \* the rows before the last ID change, and what it did
    param_search,            \* the row search of the ParamsEditor: row_conditions,
                             \* found_rows, found_row_index, the 'Go to Next Hit' and
                             \* 'Clear Search' buttons and the open ParamFinder
    \* ---- widgets ----
    entry_row,               \* one QEntryRow: its name label, its name line edit and the
                             \* entry_text_changed signals it has emitted
    tooltip,                 \* one ToolTip, the pointer and the pending `after` callback
    super_frame,             \* one SuperFrame (SmartFrame): its current frame, automatic
                             \* row and column, grid defaults and open set_master blocks
    dialog,                  \* one CustomDialog: its outputs, its mainloop and the events
                             \* it was sent
    \* ---- main window ----
    tab                      \* the editor that is open: "qt", "ai" or "params", or
                             \* "widgets" when a widget is exercised on its own

qt_vars == <<categories, selected_category_name, first_row_index, entry_count,
             shown_rows, previous_button, next_button, qt_call, qt_ops_run>>

ai_vars == <<goals, entry_rows, active_row_index, e_entry_text_edit, e_entry_id_edit,
             lua_script_editor, buttons, ai_call>>

map_vars == <<selected_map_id, map_choice, ai_other_maps, action_history>>

param_vars == <<param_rows, param_entry_rows, param_first_display_index,
                param_active_row_index, param_call, param_before>>

widget_vars == <<entry_row, tooltip, super_frame, dialog>>

vars == <<qt_vars, ai_vars, map_vars, scripts, param_vars, param_search, widget_vars, tab>>

\* What the handlers of one editor leave alone.
not_qt_vars == <<ai_vars, map_vars, scripts, param_vars, param_search, widget_vars, tab>>
not_ai_vars == <<qt_vars, scripts, param_vars, param_search, widget_vars, tab>>
not_param_vars == <<qt_vars, ai_vars, map_vars, scripts, param_search, widget_vars, tab>>
editor_vars == <<qt_vars, ai_vars, map_vars, scripts, param_vars, param_search, tab>>

\* What the handlers of one widget leave alone.
not_entry_row_vars == <<editor_vars, tooltip, super_frame, dialog>>
not_tooltip_vars == <<editor_vars, entry_row, super_frame, dialog>>
not_super_frame_vars == <<editor_vars, entry_row, tooltip, dialog>>
not_dialog_vars == <<editor_vars, entry_row, tooltip, super_frame>>

Min(a, b) == IF a < b THEN a ELSE b
Max(a, b) == IF a > b THEN a ELSE b

\* Python's None, for row indexes and list positions.
None == 0 - 1

\* The last handler call of the AIEditor is not on record.
NoCall ==
    [op |-> "none", result |-> "", goals_before |-> <<>>, key |-> <<0, "battle">>, id |-> 0]

\* No ID change of a param row is on record.
NoParamBefore == [kind |-> "none", rows |-> <<>>, old |-> 0, new |-> 0]

\* The maps of the project (their AI file stems).
Maps == {"m10_00_00_00", "m10_01_00_00"}

\* The map selected when the editor is built.
FirstMap == "m10_00_00_00"

\* The script side of the AIEditor is left out.
NoScripts == <<>>

\* The first map is selected, the other maps hold no goals and no action is on record.
MapsIdle ==
    /\ selected_map_id = FirstMap
    /\ map_choice = FirstMap
    /\ ai_other_maps = [m \in Maps \ {FirstMap} |-> <<>>]
    /\ action_history = <<>>

\* The AIEditor is not the open editor.
AIIdle ==
    /\ MapsIdle
    /\ scripts = NoScripts
    /\ goals = <<>>
    /\ entry_rows = <<>>
    /\ active_row_index = None
    /\ e_entry_text_edit = None
    /\ e_entry_id_edit = None
    /\ lua_script_editor = [state |-> "disabled", text |-> ""]
    /\ buttons = [confirm |-> "disabled", compile |-> "disabled", write |-> "disabled",
                  reload |-> "normal"]
    /\ ai_call = NoCall

\* The row search of the ParamsEditor is left out.
NoSearch == <<>>

\* The ParamsEditor is not the open editor.
ParamsIdle ==
    /\ param_search = NoSearch
    /\ param_rows = <<>>
    /\ param_entry_rows = <<>>
    /\ param_first_display_index = 0
    /\ param_active_row_index = None
    /\ param_call = [op |-> "init", clash |-> FALSE, store_kept |-> TRUE]
    /\ param_before = NoParamBefore

(***************************************************************************)
(* Qt: QEntryRowList and BaseEditor                                        *)
(***************************************************************************)

\* Largest category the model builds.
MaxEntries == 112

ENTRY_RANGE_SIZE == 10

\* A QSpinBox constructed without setRange() holds values in [0, 99].
SpinBoxMinimum == 0
SpinBoxMaximum == 99

CategoryNames == <<"Category A", "Category Big">>

\* Category sizes: the TEST_DATA sizes (3, 45), the sizes around one range, and the sizes
\* around the QSpinBox maximum.
CategorySizes == {0, 1, 3, 10, 11, 20, 45} \cup {n \in 0..MaxEntries : n >= 99}

\* The entries of a category: (id, text) tuples with ids 0..n-1, as TEST_DATA builds them.
CategoryEntries(n) == [i \in 1..n |-> i - 1]

get_selected_category_entries == CategoryEntries(categories[selected_category_name])

\* QSpinBox.setValue: the value is bound to [minimum, maximum].
setValue(v) == Max(SpinBoxMinimum, Min(SpinBoxMaximum, v))

previous_button_valid(first) == first > 0

next_button_valid(first, count) == first < count - ENTRY_RANGE_SIZE

\* The rows populate_entries shows: entries[first : first + ENTRY_RANGE_SIZE].
entries_range(entries, first) ==
    SubSeq(entries, first + 1, Min(first + ENTRY_RANGE_SIZE, Len(entries)))

\* New start of the range after go_to_previous_range (before setValue).
previous_range_start(first) == Max(first - ENTRY_RANGE_SIZE, 0)

\* A go_to_next_range guard that lets the range start at len(entries).
next_range_invalid_off_by_one(first, entries) == first + ENTRY_RANGE_SIZE > Len(entries)

\* go_to_next_range returns early when this holds.
next_range_invalid(first, entries) == first + ENTRY_RANGE_SIZE >= Len(entries)

\* first_row_index after go_to_next_range(entries).
go_to_next_range_value(first, entries) ==
    IF next_range_invalid(first, entries) THEN first
    ELSE setValue(first + ENTRY_RANGE_SIZE)

\* first_row_index after go_to_previous_range(entries).
go_to_previous_range_value(first) ==
    IF first = 0 THEN first
    ELSE setValue(previous_range_start(first))

\* first_row_index when on_category_selected populates the new category.
category_selected_first_row(first) == first

\* entry_count after on_category_selected populates the new category.
category_selected_entry_count(entries) == Len(entries)

QtInit ==
    /\ categories \in [{CategoryNames[i] : i \in 1..Len(CategoryNames)} -> CategorySizes]
    /\ selected_category_name = CategoryNames[1]
    /\ first_row_index = setValue(0)
    /\ entry_count = categories[CategoryNames[1]]
    /\ shown_rows = entries_range(CategoryEntries(categories[CategoryNames[1]]), 0)
    /\ previous_button = previous_button_valid(0)
    /\ next_button = next_button_valid(0, categories[CategoryNames[1]])
    /\ qt_call = [op |-> "init", first |-> 0, category |-> CategoryNames[1]]
    /\ qt_ops_run = {}

\* BaseEditor.on_category_selected(item): populate_entries, then update_range_button_states.
on_category_selected(name) ==
    LET entries == CategoryEntries(categories[name])
        first == category_selected_first_row(first_row_index)
        count == category_selected_entry_count(entries)
    IN  /\ selected_category_name' = name
        /\ first_row_index' = first
        /\ entry_count' = count
        /\ shown_rows' = entries_range(entries, first)
        /\ previous_button' = previous_button_valid(first)
        /\ next_button' = next_button_valid(first, count)
        /\ qt_call' = [op |-> "on_category_selected", first |-> first_row_index,
                       category |-> selected_category_name]
        /\ qt_ops_run' = qt_ops_run \cup {"on_category_selected"}
        /\ UNCHANGED <<categories, not_qt_vars>>

\* Previous button: QEntryRowList.go_to_previous_range(entries).  setValue emits valueChanged
\* (connected to update_range_button_states) when the value changes, before populate_entries.
go_to_previous_range ==
    LET entries == get_selected_category_entries
        new == go_to_previous_range_value(first_row_index)
    IN  /\ first_row_index' = new
        /\ IF first_row_index = 0
           THEN UNCHANGED <<entry_count, shown_rows>>
           ELSE /\ entry_count' = Len(entries)
                /\ shown_rows' = entries_range(entries, new)
        /\ IF new # first_row_index
           THEN /\ previous_button' = previous_button_valid(new)
                /\ next_button' = next_button_valid(new, entry_count)
           ELSE UNCHANGED <<previous_button, next_button>>
        /\ qt_call' = [op |-> "go_to_previous_range", first |-> first_row_index,
                       category |-> selected_category_name]
        /\ qt_ops_run' = qt_ops_run \cup {"go_to_previous_range"}
        /\ UNCHANGED <<categories, selected_category_name, not_qt_vars>>

\* Next button: QEntryRowList.go_to_next_range(entries).
go_to_next_range ==
    LET entries == get_selected_category_entries
        new == go_to_next_range_value(first_row_index, entries)
    IN  /\ first_row_index' = new
        /\ IF next_range_invalid(first_row_index, entries)
           THEN UNCHANGED <<entry_count, shown_rows>>
           ELSE /\ entry_count' = Len(entries)
                /\ shown_rows' = entries_range(entries, new)
        /\ IF new # first_row_index
           THEN /\ previous_button' = previous_button_valid(new)
                /\ next_button' = next_button_valid(new, entry_count)
           ELSE UNCHANGED <<previous_button, next_button>>
        /\ qt_call' = [op |-> "go_to_next_range", first |-> first_row_index,
                       category |-> selected_category_name]
        /\ qt_ops_run' = qt_ops_run \cup {"go_to_next_range"}
        /\ UNCHANGED <<categories, selected_category_name, not_qt_vars>>

QtNext ==
    \/ \E i \in 1..Len(CategoryNames) : on_category_selected(CategoryNames[i])
    \/ go_to_previous_range
    \/ go_to_next_range

\* A QEntryRow as QEntryRow.__init__ leaves it: the label reads "Entry Text", the line
\* edit holds the same text and is hidden, and no signal has been emitted.
QEntryRowInit ==
    [entry_index |-> None, entry_id |-> None,
     name_label |-> [text |-> "Entry Text", hidden |-> FALSE],
     name_line_edit |-> [text |-> "Entry Text", hidden |-> TRUE],
     entry_text_changed |-> <<>>]

\* text=None of a ToolTip: the tip is switched off.
NoText == "<None>"

\* ToolTip(*widgets, text=text) as ToolTip.__init__ leaves it, with the pointer outside
\* every widget and no `after` callback handed out by Tk.
ToolTip_init(widgets, text) ==
    [widgets |-> widgets,
     widget_status |-> [w \in {widgets[i] : i \in 1..Len(widgets)} |-> FALSE],
     text |-> text,
     schedule_id |-> None,
     tip_box |-> FALSE,
     after_count |-> 0,
     after_pending |-> FALSE,
     pointer_in |-> {}]

\* The frames are numbered as they are created; the master frame is the first.
master_frame == 0

\* No set_master block has been left.
NoExit == [how |-> "none", all_differed |-> FALSE]

\* A SuperFrame as __init__ leaves it: the master frame is current, automatic rows and
\* columns are off and the grid defaults are empty. A dict is the set of its items.
SuperFrameInit ==
    [current_frame |-> master_frame,
     current_row |-> None,
     current_column |-> None,
     grid_defaults |-> {},
     frames |-> 1,
     stack |-> <<>>,
     last_exit |-> NoExit]

\* A widget that has not been built.
NoWidget == <<>>

\* No widget is exercised on its own.
WidgetsIdle ==
    /\ entry_row = NoWidget
    /\ tooltip = NoWidget
    /\ super_frame = NoWidget
    /\ dialog = NoWidget

\* The Qt editor is not the open editor.
QtIdle ==
    /\ categories = [name \in {CategoryNames[i] : i \in 1..Len(CategoryNames)} |-> 0]
    /\ selected_category_name = CategoryNames[1]
    /\ first_row_index = 0
    /\ entry_count = 0
    /\ shown_rows = <<>>
    /\ previous_button = FALSE
    /\ next_button = FALSE
    /\ qt_call = [op |-> "init", first |-> 0, category |-> CategoryNames[1]]
    /\ qt_ops_run = {}

\* No editor is open.
EditorsIdle == tab = "widgets" /\ QtIdle /\ AIIdle /\ ParamsIdle

\* The Qt editor is the open editor.
QtWindowInit == tab = "qt" /\ QtInit /\ AIIdle /\ ParamsIdle /\ WidgetsIdle

SpecQt == QtWindowInit /\ [][QtNext]_vars

(***************************************************************************)
(* Properties of the Qt range navigation                                   *)
(***************************************************************************)

\* No category has been selected since construction: every call so far was made on the
\* same entries list.
FixedEntriesList == "on_category_selected" \notin qt_ops_run

\* C3: go_to_next_range(entries) increases first_row_index by exactly ENTRY_RANGE_SIZE when
\* first_row_index + ENTRY_RANGE_SIZE < len(entries), and leaves it unchanged otherwise.
C3_NextRangeAdvancesByRangeSize ==
    qt_call.op = "go_to_next_range" =>
        first_row_index =
            IF qt_call.first + ENTRY_RANGE_SIZE < Len(get_selected_category_entries)
            THEN qt_call.first + ENTRY_RANGE_SIZE
            ELSE qt_call.first

\* C4: calling go_to_next_range repeatedly from first_row_index = 0 ends at an offset o that
\* further calls leave unchanged, with o + ENTRY_RANGE_SIZE >= n and o a multiple of
\* ENTRY_RANGE_SIZE (0 when n <= ENTRY_RANGE_SIZE).
C4_NextRangeTerminalOffset ==
    LET entries == get_selected_category_entries
    IN  qt_ops_run \subseteq {"go_to_next_range"} =>
            /\ first_row_index % ENTRY_RANGE_SIZE = 0
            /\ Len(entries) <= ENTRY_RANGE_SIZE => first_row_index = 0
            /\ go_to_next_range_value(first_row_index, entries) = first_row_index
                    => first_row_index + ENTRY_RANGE_SIZE >= Len(entries)

\* C5: next_button_valid is true exactly when first_row_index + ENTRY_RANGE_SIZE is below the
\* number of entries of the selected category, which is exactly when go_to_next_range would
\* move the window; previous_button_valid is true exactly when first_row_index > 0.
C5_RangeButtonValidity ==
    LET entries == get_selected_category_entries
    IN  /\ next_button_valid(first_row_index, entry_count)
                <=> (first_row_index + ENTRY_RANGE_SIZE < Len(entries))
        /\ next_button_valid(first_row_index, entry_count)
                <=> (go_to_next_range_value(first_row_index, entries) # first_row_index)
        /\ previous_button_valid(first_row_index) <=> (first_row_index > 0)

\* C6: on a fixed entries list, starting from 0, first_row_index is never negative and is
\* below len(entries) when the list is not empty; go_to_previous_range subtracts
\* ENTRY_RANGE_SIZE floored at 0 and does nothing at 0.
C6_RangeStartWithinEntries ==
    FixedEntriesList =>
        /\ first_row_index >= 0
        /\ Len(get_selected_category_entries) > 0
                => first_row_index < Len(get_selected_category_entries)
        /\ qt_call.op = "go_to_previous_range"
                => first_row_index = Max(qt_call.first - ENTRY_RANGE_SIZE, 0)

\* C6 witness: on a fixed non-empty list, go_to_previous_range has moved the range back from
\* its last page.
C6_Witness ==
    /\ FixedEntriesList
    /\ qt_call.op = "go_to_previous_range"
    /\ qt_call.first > 0
    /\ qt_call.first + ENTRY_RANGE_SIZE >= Len(get_selected_category_entries)
    /\ first_row_index < qt_call.first

\* C7: when a category is selected, first_row_index is 0 when its entries are populated, so
\* a non-empty category never shows an empty page right after being selected.
C7_CategorySelectionResetsRange ==
    (qt_call.op = "on_category_selected" /\ qt_call.category # selected_category_name) =>
        /\ first_row_index = 0
        /\ entry_count > 0 => shown_rows # <<>>

(***************************************************************************)
(* AIEditor: goals of the selected map                                     *)
(***************************************************************************)

\* Most goals a map holds, and the largest goal ID.
MaxGoals == 3
MaxGoalId == 1

GoalIds == 0..MaxGoalId

\* GoalType.Battle, GoalType.Logic, GoalType.Unknown.
GoalTypes == {"battle", "logic", "unknown"}

\* Goal names, as the name followed by its suffixes; <<>> is the empty string.
Names == {<<"Goal">>, <<"Goal", "_Logic">>}

\* Script texts; "" is an empty script.
Scripts == {"", "x"}

\* A logic goal's name must end in '_Logic' (LuaError otherwise).
ends_in_Logic(name) == name # <<>> /\ name[Len(name)] = "_Logic"

\* Setting goal.goal_type raises LuaError.
goal_type_raises(name, goal_type) == goal_type = "logic" /\ ~ends_in_Logic(name)

\* Setting goal.goal_name raises LuaError.
goal_name_raises(goal_type, name) == goal_type = "logic" /\ ~ends_in_Logic(name)

goal_key(goal) == <<goal.goal_id, goal.goal_type>>

\* (goal_id, goal_type) in get_category_data()
in_goal_dict(gs, goal_id, goal_type) ==
    \E i \in 1..Len(gs) : goal_key(gs[i]) = <<goal_id, goal_type>>

\* Position (from 1) of the first goal with this key at position i or later; 0 when there
\* is none.
RECURSIVE first_goal_from(_, _, _)
first_goal_from(gs, key, i) ==
    IF i > Len(gs) THEN 0
    ELSE IF goal_key(gs[i]) = key THEN i
    ELSE first_goal_from(gs, key, i + 1)

\* Position (from 1) of the goal get_goal(goal_id, goal_type) returns; 0 when there is none.
goal_position(gs, goal_id, goal_type) == first_goal_from(gs, <<goal_id, goal_type>>, 1)

\* The keys of get_goal_dict(), in list order, each key once.
RECURSIVE get_goal_dict_keys(_)
get_goal_dict_keys(gs) ==
    IF gs = <<>> THEN <<>>
    ELSE LET front == get_goal_dict_keys(SubSeq(gs, 1, Len(gs) - 1))
             key == goal_key(gs[Len(gs)])
         IN  IF \E i \in 1..Len(front) : front[i] = key THEN front ELSE Append(front, key)

\* list.insert(index, x), index counted from 0.
list_insert(seq, index, x) ==
    LET at == Min(index, Len(seq))
    IN  SubSeq(seq, 1, at) \o <<x>> \o SubSeq(seq, at + 1, Len(seq))

\* The list without the element at position pos (from 1).
list_remove_at(seq, pos) == SubSeq(seq, 1, pos - 1) \o SubSeq(seq, pos + 1, Len(seq))

\* Python truth value of an index argument: None and 0 are both false.
truthy(index) == index # None /\ index # 0

\* The editor's state as one value, for the handlers that call each other.
AIState ==
    [goals |-> goals, rows |-> entry_rows, active |-> active_row_index,
     e_text |-> e_entry_text_edit, e_id |-> e_entry_id_edit,
     editor |-> lua_script_editor, buttons |-> buttons]

\* AIEntryRow.update_entry(entry_id, entry_text, goal_type)
update_entry(entry_id, entry_text, goal_type) ==
    [entry_id |-> entry_id, entry_text |-> entry_text, goal_type |-> goal_type]

\* Position in S.goals of get_goal(row_index), through the row's ID and type.
row_goal_position(S, row_index) ==
    goal_position(S.goals, S.rows[row_index + 1].entry_id, S.rows[row_index + 1].goal_type)

get_goal(S, row_index) == S.goals[row_goal_position(S, row_index)]

_cancel_entry_text_edit(S) == [S EXCEPT !.e_text = None]

_cancel_entry_id_edit(S) == [S EXCEPT !.e_id = None]

\* _ignored_unsaved(): TRUE unless the script text has changed and the user stays.
_ignored_unsaved(S, lose_changes) ==
    IF S.editor.text # get_goal(S, S.active).script THEN lose_changes ELSE TRUE

\* A text-edit start that only looks at the text-edit Entry.
_start_entry_text_edit_unguarded(S, row_index) ==
    IF S.e_text = None THEN [S EXCEPT !.e_text = row_index] ELSE S

_start_entry_text_edit(S, row_index) ==
    IF S.e_text = None /\ S.e_id = None THEN [S EXCEPT !.e_text = row_index] ELSE S

_start_entry_id_edit(S, row_index) ==
    IF S.e_id = None /\ S.e_text = None THEN [S EXCEPT !.e_id = row_index] ELSE S

button_state(enabled) == IF enabled THEN "normal" ELSE "disabled"

select_entry_row_index(S, row_index, edit_if_already_selected, id_clicked, check_unsaved, lose_changes) ==
    LET old_row_index == S.active
    IN  IF /\ check_unsaved
           /\ old_row_index # row_index
           /\ old_row_index # None
           /\ ~_ignored_unsaved(S, lose_changes)
        THEN S
        ELSE IF old_row_index # None /\ row_index # None /\ row_index = old_row_index
        THEN IF edit_if_already_selected
             THEN IF id_clicked THEN _start_entry_id_edit(S, row_index)
                  ELSE _start_entry_text_edit(S, row_index)
             ELSE S
        ELSE LET C == IF old_row_index # None /\ row_index # None THEN S
                      ELSE _cancel_entry_text_edit(_cancel_entry_id_edit(S))
             IN  IF row_index # None
                 THEN LET goal == get_goal(C, row_index)
                      IN  [C EXCEPT
                              !.active = row_index,
                              !.editor = [state |-> "normal", text |-> goal.script],
                              !.buttons = [confirm |-> button_state(goal.script # ""),
                                           compile |-> button_state(goal.script # ""),
                                           write |-> button_state(goal.script # ""),
                                           reload |-> "normal"]]
                 ELSE [C EXCEPT
                          !.active = None,
                          !.editor = [state |-> "disabled", text |-> ""],
                          !.buttons = [confirm |-> "disabled", compile |-> "disabled",
                                       write |-> "disabled", reload |-> "disabled"]]

\* The rows refresh_entries displays: one per key of get_goal_dict().
displayed_rows(gs, keys) ==
    [i \in 1..Len(keys) |->
        LET goal == gs[goal_position(gs, keys[i][1], keys[i][2])]
        IN  update_entry(goal.goal_id, goal.goal_name, goal.goal_type)]

\* The rows after the loop of refresh_entries: `row` displayed rows, then the rows that are
\* hidden and keep the entry they showed last (hide() only removes them from the grid).
rows_with_hidden(S, shown) == shown \o SubSeq(S.rows, Len(shown) + 1, Len(S.rows))

\* refresh_entries() raises: the active row is a hidden row that must be left, and
\* _ignored_unsaved() asks get_goal() for a goal that is no longer in the list.
refresh_entries_raises_in(S, shown) ==
    LET row == Len(shown)
        H == [S EXCEPT !.rows = rows_with_hidden(S, shown)]
    IN  /\ S.active # None
        /\ (0 < row /\ row = S.active) \/ S.active > row
        /\ row_goal_position(H, S.active) = 0

refresh_entries_raises(S) ==
    refresh_entries_raises_in(S, displayed_rows(S.goals, get_goal_dict_keys(S.goals)))

refresh_entries(S, lose_changes) ==
    LET C == _cancel_entry_text_edit(_cancel_entry_id_edit(S))
        D == [C EXCEPT !.rows = displayed_rows(C.goals, get_goal_dict_keys(C.goals))]
        row == Len(D.rows)
        H == [D EXCEPT !.rows = rows_with_hidden(C, D.rows)]
        displayed(R) == [R EXCEPT !.rows = SubSeq(R.rows, 1, row)]
    IN  IF D.active # None
        THEN IF refresh_entries_raises_in(S, D.rows) THEN D
             ELSE IF 0 < row /\ row = D.active
             THEN displayed(select_entry_row_index(H, row - 1, TRUE, FALSE, TRUE, lose_changes))
             ELSE IF D.active > row
             THEN displayed(select_entry_row_index(H, None, TRUE, FALSE, TRUE, lose_changes))
             ELSE D
        ELSE D

\* A get_entry_index that finds the first goal with the ID, whatever its type.
get_entry_index_by_id(S, entry_id, goal_type) ==
    (CHOOSE i \in 1..Len(S.goals) :
        /\ S.goals[i].goal_id = entry_id
        /\ \A j \in 1..(i - 1) : S.goals[j].goal_id # entry_id) - 1

\* get_entry_index(entry_id, goal_type): index from 0 in the goals list.
get_entry_index(S, entry_id, goal_type) == goal_position(S.goals, entry_id, goal_type) - 1

select_entry_id(S, entry_id, goal_type, edit_if_already_selected, lose_changes) ==
    select_entry_row_index(refresh_entries(S, lose_changes),
                           get_entry_index(S, entry_id, goal_type),
                           edit_if_already_selected, FALSE, TRUE, lose_changes)

\* _set_entry_text(entry_id, text, goal_type, update_row_index)
_set_entry_text(S, entry_id, text, goal_type, update_row_index) ==
    LET pos == goal_position(S.goals, entry_id, goal_type)
    IN  IF goal_name_raises(S.goals[pos].goal_type, text) THEN S
        ELSE LET C == [S EXCEPT !.goals[pos].goal_name = text]
             IN  IF update_row_index # None
                 THEN [C EXCEPT !.rows[update_row_index + 1] =
                                    update_entry(entry_id, text, goal_type)]
                 ELSE C

\* _add_entry: (entry_id, goal_type) in get_category_data()
add_entry_clash(gs, entry_id, goal_type) == in_goal_dict(gs, entry_id, goal_type)

\* Where _add_entry puts the new goal.
add_entry_goals(gs, at_index, new_goal) ==
    IF truthy(at_index) THEN list_insert(gs, at_index, new_goal) ELSE Append(gs, new_goal)

\* An _add_entry that does not look at the sign of the ID.
add_entry_fails_sign_unchecked(S, entry_id, goal_type, new_goal) ==
    \/ add_entry_clash(S.goals, entry_id, goal_type)
    \/ goal_type_raises(new_goal.goal_name, goal_type)

\* _add_entry returns before changing anything (dialog, or LuaError from new_goal.goal_type).
add_entry_fails(S, entry_id, goal_type, new_goal) ==
    \/ entry_id < 0
    \/ add_entry_clash(S.goals, entry_id, goal_type)
    \/ goal_type_raises(new_goal.goal_name, goal_type)

_add_entry(S, entry_id, text, goal_type, at_index, new_goal, lose_changes) ==
    IF add_entry_fails(S, entry_id, goal_type, new_goal) THEN S
    ELSE LET goal == [new_goal EXCEPT !.goal_id = entry_id, !.goal_type = goal_type]
             C == _cancel_entry_text_edit(_cancel_entry_id_edit(S))
             D == [C EXCEPT !.goals = add_entry_goals(C.goals, at_index, goal)]
             E == _set_entry_text(D, entry_id, text, goal_type, None)
         IN  select_entry_id(E, entry_id, goal_type, FALSE, lose_changes)

add_relative_entry(S, entry_id, goal_type, offset, lose_changes) ==
    LET pos == goal_position(S.goals, entry_id, goal_type)
        goal == S.goals[pos]
    IN  _add_entry(S, entry_id + offset, goal.goal_name, goal_type, pos, goal, lose_changes)

\* A delete_entry that removes the first goal with the row's ID, whatever its type.
delete_entry_goals_by_id(S, row_index) ==
    list_remove_at(S.goals,
                   CHOOSE i \in 1..Len(S.goals) :
                       /\ S.goals[i].goal_id = S.rows[row_index + 1].entry_id
                       /\ \A j \in 1..(i - 1) :
                               S.goals[j].goal_id # S.rows[row_index + 1].entry_id)

\* The goals after delete_entry removes the goal shown at row_index.
delete_entry_goals(S, row_index) == list_remove_at(S.goals, row_goal_position(S, row_index))

\* A delete_entry that does not deselect the row.
delete_entry_keeps_selection(S, row_index, lose_changes) ==
    IF row_index = None \/ row_index # S.active THEN S
    ELSE LET C == _cancel_entry_text_edit(_cancel_entry_id_edit(S))
             D == [C EXCEPT !.goals = delete_entry_goals(C, row_index)]
         IN  refresh_entries(D, lose_changes)

delete_entry(S, row_index, lose_changes) ==
    IF row_index = None \/ row_index # S.active THEN S
    ELSE LET C == _cancel_entry_text_edit(_cancel_entry_id_edit(S))
             D == [C EXCEPT !.goals = delete_entry_goals(C, row_index)]
             E == select_entry_row_index(D, None, TRUE, FALSE, FALSE, lose_changes)
         IN  refresh_entries(E, lose_changes)

\* A cycle that a right click does not reverse.
next_goal_type_forward_only(old_type, reverse) ==
    CASE old_type = "battle" -> "logic"
      [] old_type = "logic" -> "unknown"
      [] old_type = "unknown" -> "battle"

\* The type set_goal_type() goes to when it is given none: forward on a left click,
\* reverse on a right click.
next_goal_type(old_type, reverse) ==
    CASE old_type = "battle" -> IF reverse THEN "unknown" ELSE "logic"
      [] old_type = "logic" -> IF reverse THEN "battle" ELSE "unknown"
      [] old_type = "unknown" -> IF reverse THEN "logic" ELSE "battle"

\* A set_goal_type that does not look for a goal with the same ID and the new type.
set_goal_type_clash_unchecked(gs, goal_id, goal_type) == FALSE

\* set_goal_type: (goal.goal_id, goal_type) in get_category_data()
set_goal_type_clash(gs, goal_id, goal_type) == in_goal_dict(gs, goal_id, goal_type)

set_goal_type(S, row_index, reverse, add_suffix) ==
    LET pos == row_goal_position(S, row_index)
        goal == S.goals[pos]
        goal_type == next_goal_type(goal.goal_type, reverse)
    IN  IF set_goal_type_clash(S.goals, goal.goal_id, goal_type) THEN S
        ELSE IF goal_type_raises(goal.goal_name, goal_type)
        THEN IF ~add_suffix THEN S
             ELSE [S EXCEPT !.goals[pos].goal_name = Append(goal.goal_name, "_Logic"),
                            !.goals[pos].goal_type = "logic",
                            !.rows[row_index + 1].entry_text = Append(goal.goal_name, "_Logic"),
                            !.rows[row_index + 1].goal_type = goal_type]
        ELSE [S EXCEPT !.goals[pos].goal_type = goal_type,
                       !.rows[row_index + 1].goal_type = goal_type]

\* change_entry_id: (new_id, goal.goal_type) in goal_dict
change_entry_id_clash(gs, new_id, goal_type) == in_goal_dict(gs, new_id, goal_type)

\* What change_entry_id returns: "same", "clash" (both False) or "changed" (True).
change_entry_id_result(S, row_index, new_id) ==
    LET goal == get_goal(S, row_index)
    IN  IF goal.goal_id = new_id THEN "same"
        ELSE IF change_entry_id_clash(S.goals, new_id, goal.goal_type) THEN "clash"
        ELSE "changed"

\* A change_entry_id that takes the goal out of the list and appends it under its new ID.
change_entry_id_goals_moved(gs, pos, new_id) ==
    Append(list_remove_at(gs, pos), [gs[pos] EXCEPT !.goal_id = new_id])

\* The goals after goal.goal_id = new_id.
change_entry_id_goals(gs, pos, new_id) == [gs EXCEPT ![pos].goal_id = new_id]

change_entry_id(S, row_index, new_id) ==
    LET pos == row_goal_position(S, row_index)
        goal == S.goals[pos]
    IN  IF change_entry_id_result(S, row_index, new_id) # "changed" THEN S
        ELSE [S EXCEPT !.goals = change_entry_id_goals(S.goals, pos, new_id),
                       !.rows[row_index + 1] =
                            update_entry(new_id, goal.goal_name, goal.goal_type)]

change_entry_text(S, row_index, new_text) ==
    LET goal == get_goal(S, row_index)
    IN  IF goal.goal_name = new_text THEN S
        ELSE _set_entry_text(S, goal.goal_id, new_text, goal.goal_type, row_index)

\* _confirm_entry_text_edit(row_index): an empty text is not committed and the edit stays
\* open; otherwise the text is changed and the Entry destroyed.
_confirm_entry_text_edit(S, row_index, new_text) ==
    IF S.e_text = None \/ new_text = <<>> THEN S
    ELSE _cancel_entry_text_edit(change_entry_text(S, row_index, new_text))

\* _confirm_entry_id_edit(row_index): an ID clash leaves the edit open; otherwise the Entry
\* is destroyed.
_confirm_entry_id_edit(S, row_index, new_id) ==
    IF S.e_id = None THEN S
    ELSE IF change_entry_id_result(S, row_index, new_id) = "clash" THEN S
    ELSE _cancel_entry_id_edit(change_entry_id(S, row_index, new_id))

(***************************************************************************)
(* AIEditor: construction and handlers                                     *)
(***************************************************************************)

\* The goals a map can hold when the editor is built, all with the same script text (none
\* decompiled yet, or all): logic goals are named '..._Logic'.
GoalRecords(script) ==
    {g \in [goal_id : GoalIds, goal_type : GoalTypes, goal_name : Names, script : {script}] :
        ~goal_type_raises(g.goal_name, g.goal_type)}

RECURSIVE GoalLists(_, _)
GoalLists(n, script) ==
    IF n = 0 THEN {<<>>}
    ELSE LET shorter == GoalLists(n - 1, script)
         IN  shorter \cup
             {Append(gs, g) : gs \in {l \in shorter : Len(l) = n - 1}, g \in GoalRecords(script)}

\* A map's goals have distinct (goal_id, goal_type) keys when it is loaded.
distinct_keys(gs) ==
    \A i, j \in 1..Len(gs) : goal_key(gs[i]) = goal_key(gs[j]) => i = j

AIInit ==
    /\ goals \in UNION {{gs \in GoalLists(MaxGoals, script) : distinct_keys(gs)} :
                            script \in Scripts}
    /\ entry_rows = <<>>
    /\ active_row_index = None
    /\ e_entry_text_edit = None
    /\ e_entry_id_edit = None
    /\ lua_script_editor = [state |-> "disabled", text |-> ""]
    /\ buttons = [confirm |-> "disabled", compile |-> "disabled", write |-> "disabled",
                  reload |-> "normal"]
    /\ ai_call = NoCall
    /\ MapsIdle
    /\ scripts = NoScripts

\* The editor's variables take the values of the state R a handler returns.
AIBecomes(R) ==
    \E after \in {R} :
        /\ goals' = after.goals
        /\ entry_rows' = after.rows
        /\ active_row_index' = after.active
        /\ e_entry_text_edit' = after.e_text
        /\ e_entry_id_edit' = after.e_id
        /\ lua_script_editor' = after.editor
        /\ buttons' = after.buttons

\* Whether _ignored_unsaved() would ask: a row is active and the script text has changed.
unsaved_changes ==
    /\ active_row_index # None
    /\ lua_script_editor.text # get_goal(AIState, active_row_index).script

\* The answers the user can give to 'Lose changes?' (asked only with unsaved changes).
LoseChanges == IF unsaved_changes THEN BOOLEAN ELSE {TRUE}

\* The record of a call with this outcome, made on the current goals.
Call(op, result, key, id) ==
    [op |-> op, result |-> result, goals_before |-> goals, key |-> key, id |-> id]

\* refresh_entries(), called when the editor is shown.
ai_refresh_entries ==
    /\ tab = "ai"
    /\ AIBecomes(refresh_entries(AIState, TRUE))
    /\ ai_call' = NoCall
    /\ UNCHANGED <<map_vars, not_ai_vars>>

\* Click on a row (its text, or its ID): select_entry_row_index(i, id_clicked=...).  An ID
\* change stays on record when the click reopens the ID edit of the changed goal.
click_entry_row(row_index, id_clicked, lose_changes) ==
    /\ tab = "ai"
    /\ row_index \in 0..(Len(entry_rows) - 1)
    /\ \E R \in {select_entry_row_index(AIState, row_index, TRUE, id_clicked, TRUE,
                                        lose_changes)} :
        /\ AIBecomes(R)
        /\ ai_call' =
              IF /\ active_row_index = row_index
                 /\ R.e_text = e_entry_text_edit
                 /\ R.e_id = e_entry_id_edit
              THEN Call("select_entry_row_index", "edit refused", NoCall.key, 0)
              ELSE IF /\ R.e_id = row_index
                      /\ e_entry_id_edit = None
                      /\ ai_call.op = "change_entry_id"
                      /\ ai_call.result = "changed"
                      /\ ai_call.key = goal_key(get_goal(AIState, row_index))
              THEN ai_call
              ELSE NoCall
    /\ UNCHANGED <<map_vars, not_ai_vars>>

\* <Return> or <FocusOut> in the text-edit Entry.
confirm_entry_text_edit(new_text) ==
    /\ tab = "ai"
    /\ e_entry_text_edit # None
    /\ AIBecomes(_confirm_entry_text_edit(AIState, e_entry_text_edit, new_text))
    /\ ai_call' = NoCall
    /\ UNCHANGED <<map_vars, not_ai_vars>>

\* <Escape> in the text-edit Entry.
cancel_entry_text_edit ==
    /\ tab = "ai"
    /\ e_entry_text_edit # None
    /\ AIBecomes(_cancel_entry_text_edit(AIState))
    /\ ai_call' = NoCall
    /\ UNCHANGED <<map_vars, not_ai_vars>>

\* The record of change_entry_id(row_index, new_id): a change that undoes the change on
\* record keeps the goals that one started from.
change_entry_id_call(row_index, new_id) ==
    LET goal == get_goal(AIState, row_index)
        result == change_entry_id_result(AIState, row_index, new_id)
    IN  IF result = "same" THEN NoCall
        ELSE IF result = "clash" THEN Call("change_entry_id", "clash", NoCall.key, 0)
        ELSE IF /\ ai_call.op = "change_entry_id"
                /\ ai_call.result = "changed"
                /\ ai_call.key = goal_key(goal)
                /\ ai_call.id = new_id
        THEN [ai_call EXCEPT !.result = "changed back", !.key = NoCall.key, !.id = 0]
        ELSE Call("change_entry_id", "changed", <<new_id, goal.goal_type>>, goal.goal_id)

\* <Return> or <FocusOut> in the ID-edit Entry: change_entry_id(row_index, new_id).
confirm_entry_id_edit(new_id) ==
    /\ tab = "ai"
    /\ e_entry_id_edit # None
    /\ AIBecomes(_confirm_entry_id_edit(AIState, e_entry_id_edit, new_id))
    /\ ai_call' = change_entry_id_call(e_entry_id_edit, new_id)
    /\ UNCHANGED <<map_vars, not_ai_vars>>

\* <Escape> in the ID-edit Entry.
cancel_entry_id_edit ==
    /\ tab = "ai"
    /\ e_entry_id_edit # None
    /\ AIBecomes(_cancel_entry_id_edit(AIState))
    /\ ai_call' = NoCall
    /\ UNCHANGED <<map_vars, not_ai_vars>>

\* The answers to "Add suffix to name?": the dialog is shown when setting the next type
\* of the row's goal raises LuaError.
AddSuffix(row_index, reverse) ==
    IF row_index \in 0..(Len(entry_rows) - 1)
          /\ goal_type_raises(get_goal(AIState, row_index).goal_name,
                              next_goal_type(get_goal(AIState, row_index).goal_type, reverse))
    THEN BOOLEAN
    ELSE {FALSE}

\* Left or right click on a row's type label: set_goal_type(i, reverse=...).
click_goal_type(row_index, reverse, add_suffix) ==
    /\ tab = "ai"
    /\ row_index \in 0..(Len(entry_rows) - 1)
    /\ AIBecomes(set_goal_type(AIState, row_index, reverse, add_suffix))
    /\ ai_call' = NoCall
    /\ UNCHANGED <<map_vars, not_ai_vars>>

\* The record of _add_entry(entry_id, ..., goal_type, new_goal=new_goal): a negative ID and
\* an ID clash are on record as failures.
add_entry_call(entry_id, goal_type, new_goal) ==
    IF entry_id < 0 \/ add_entry_clash(goals, entry_id, goal_type)
    THEN [NoCall EXCEPT !.op = "_add_entry", !.result = "failed"]
    ELSE IF add_entry_fails(AIState, entry_id, goal_type, new_goal) THEN NoCall
    ELSE Call("_add_entry", "added", <<entry_id, goal_type>>, 0)

\* Context menu 'Duplicate Entry to Next ID': add_relative_entry(entry_id, goal_type, 1).
duplicate_entry(row_index, lose_changes) ==
    /\ tab = "ai"
    /\ row_index \in 0..(Len(entry_rows) - 1)
    /\ Len(goals) < MaxGoals
    /\ entry_rows[row_index + 1].entry_id + 1 <= MaxGoalId
    /\ \E row \in {entry_rows[row_index + 1]} :
        /\ AIBecomes(add_relative_entry(AIState, row.entry_id, row.goal_type, 1,
                                        lose_changes))
        /\ ai_call' = add_entry_call(row.entry_id + 1, row.goal_type,
                                     get_goal(AIState, row_index))
    /\ UNCHANGED <<map_vars, not_ai_vars>>

\* The goal a caller of _add_entry builds: named by the entry text, with the script text of
\* the map's other goals.
new_goal_for(text) ==
    [goal_id |-> 0, goal_type |-> "battle", goal_name |-> text,
     script |-> IF goals = <<>> THEN "" ELSE goals[1].script]

\* _add_entry(entry_id, text, goal_type, at_index=..., new_goal=...) with a goal built by
\* the caller.
add_entry(entry_id, text, goal_type, at_index, lose_changes) ==
    /\ tab = "ai"
    /\ Len(goals) < MaxGoals
    /\ AIBecomes(_add_entry(AIState, entry_id, text, goal_type, at_index, new_goal_for(text),
                            lose_changes))
    /\ ai_call' = add_entry_call(entry_id, goal_type, new_goal_for(text))
    /\ UNCHANGED <<map_vars, not_ai_vars>>

\* Context menu 'Delete Entry': delete_entry(row_index).  Deleting the goal that the call on
\* record added keeps the goals that call started from.
delete_entry_clicked(row_index) ==
    /\ tab = "ai"
    /\ row_index \in 0..(Len(entry_rows) - 1)
    /\ AIBecomes(delete_entry(AIState, row_index, TRUE))
    /\ ai_call' =
          IF /\ row_index = active_row_index
             /\ ai_call.op = "_add_entry"
             /\ ai_call.result = "added"
             /\ ai_call.key = goal_key(get_goal(AIState, row_index))
          THEN [ai_call EXCEPT !.op = "delete_entry", !.result = "deleted the added goal",
                               !.key = NoCall.key]
          ELSE NoCall
    /\ UNCHANGED <<map_vars, not_ai_vars>>

\* select_entry_id(entry_id, goal_type=goal_type) for a goal of the selected map
\* (get_entry_index raises ValueError for any other key).
select_entry_id_called(entry_id, goal_type, lose_changes) ==
    /\ tab = "ai"
    /\ in_goal_dict(goals, entry_id, goal_type)
    /\ AIBecomes(select_entry_id(AIState, entry_id, goal_type, TRUE, lose_changes))
    /\ ai_call' = NoCall
    /\ UNCHANGED <<map_vars, not_ai_vars>>

\* The user types in the script editor (enabled while a row is active).
edit_script_text(text) ==
    /\ tab = "ai"
    /\ lua_script_editor.state = "normal"
    /\ text # lua_script_editor.text
    /\ lua_script_editor' = [lua_script_editor EXCEPT !.text = text]
    /\ ai_call' = NoCall
    /\ UNCHANGED <<goals, entry_rows, active_row_index, e_entry_text_edit, e_entry_id_edit,
                   buttons, map_vars, not_ai_vars>>

AINext ==
    \/ ai_refresh_entries
    \/ \E i \in 0..(MaxGoals - 1), id_clicked \in BOOLEAN, lose_changes \in LoseChanges :
            click_entry_row(i, id_clicked, lose_changes)
    \/ \E new_text \in Names \cup {<<>>} : confirm_entry_text_edit(new_text)
    \/ cancel_entry_text_edit
    \/ \E new_id \in GoalIds : confirm_entry_id_edit(new_id)
    \/ cancel_entry_id_edit
    \/ \E i \in 0..(MaxGoals - 1), reverse \in BOOLEAN :
            \E add_suffix \in AddSuffix(i, reverse) : click_goal_type(i, reverse, add_suffix)
    \/ \E i \in 0..(MaxGoals - 1), lose_changes \in LoseChanges :
            duplicate_entry(i, lose_changes)
    \/ /\ Len(goals) < MaxGoals
       /\ \E entry_id \in GoalIds, text \in Names, goal_type \in GoalTypes,
             at_index \in {None} \cup 0..Len(goals), lose_changes \in LoseChanges :
               add_entry(entry_id, text, goal_type, at_index, lose_changes)
    \/ \E lose_changes \in LoseChanges :
            add_entry(0 - 1, <<"Goal">>, "battle", None, lose_changes)
    \/ \E i \in 0..(MaxGoals - 1) : delete_entry_clicked(i)
    \/ \E entry_id \in GoalIds, goal_type \in GoalTypes, lose_changes \in LoseChanges :
            select_entry_id_called(entry_id, goal_type, lose_changes)
    \/ \E text \in Scripts : edit_script_text(text)

(***************************************************************************)
(* ParamsEditor: rows of the active param                                  *)
(***************************************************************************)

\* Largest row ID of the param.
MaxParamId == 2

ParamIds == 0..MaxParamId

\* Row names (ParamRow.Name).
ParamNames == {"a", "b"}

\* Position (from 1) of row_id in the rows dictionary; 0 when it is not a key.
RECURSIVE row_position_from(_, _, _)
row_position_from(rows, row_id, i) ==
    IF i > Len(rows) THEN 0
    ELSE IF rows[i].id = row_id THEN i
    ELSE row_position_from(rows, row_id, i + 1)

row_position(rows, row_id) == row_position_from(rows, row_id, 1)

\* entry_id in param.rows
in_rows(rows, row_id) == row_position(rows, row_id) # 0

\* param.pop(entry_id): the rows that are left.
rows_pop(rows, row_id) == list_remove_at(rows, row_position(rows, row_id))

\* param[new_id] = entry_data: an existing key keeps its place and takes the new value, a new
\* key goes last.
rows_setitem(rows, row_id, data) ==
    IF in_rows(rows, row_id)
    THEN [rows EXCEPT ![row_position(rows, row_id)] = [id |-> row_id, data |-> data]]
    ELSE Append(rows, [id |-> row_id, data |-> data])

\* sorted(param.rows): the rows in ascending order of their IDs.
RECURSIVE sorted_rows(_)
sorted_rows(rows) ==
    IF rows = <<>> THEN <<>>
    ELSE LET least == CHOOSE i \in 1..Len(rows) : \A j \in 1..Len(rows) : rows[i].id <= rows[j].id
         IN  <<rows[least]>> \o sorted_rows(list_remove_at(rows, least))

\* The entry rows showing the param: one per row, in ascending ID order.
params_displayed_rows(rows) ==
    LET sorted == sorted_rows(rows)
    IN  [i \in 1..Len(rows) |-> [entry_id |-> sorted[i].id,
                                 entry_text |-> sorted[i].data.Name]]

\* The rows after _set_entry_id: pop(entry_id), then [new_id] = entry_data.
set_entry_id_rows(rows, entry_id, new_id) ==
    rows_setitem(rows_pop(rows, entry_id), new_id, rows[row_position(rows, entry_id)].data)

\* The entry rows after _set_entry_id (category is the active category).
set_entry_id_entry_rows(shown, rows, entry_id, new_id, update_row_index) ==
    IF truthy(update_row_index)
    THEN [shown EXCEPT ![update_row_index + 1] =
              [entry_id |-> new_id, entry_text |-> rows[row_position(rows, entry_id)].data.Name]]
    ELSE shown

\* All dictionaries of rows with IDs up to max_id, in ascending order (a param as loaded).
RECURSIVE LoadedRows(_)
LoadedRows(max_id) ==
    IF max_id < 0 THEN {<<>>}
    ELSE LET lower == LoadedRows(max_id - 1)
         IN  lower \cup {Append(rows, [id |-> max_id, data |-> [Name |-> name]]) :
                            rows \in lower, name \in ParamNames}

ParamsInit ==
    /\ param_search = NoSearch
    /\ param_rows \in LoadedRows(MaxParamId)
    /\ param_entry_rows = params_displayed_rows(param_rows)
    /\ param_first_display_index = 0
    /\ param_active_row_index = None
    /\ param_call = [op |-> "init", clash |-> FALSE, store_kept |-> TRUE]
    /\ param_before = NoParamBefore

\* _set_entry_id(entry_id, new_id, category=active_category, update_row_index=...): entry_id
\* is a row of the param (pop raises KeyError otherwise); update_row_index is None or the
\* entry row that shows entry_id.  The method returns True on every path.
_set_entry_id(entry_id, new_id, update_row_index) ==
    /\ tab = "params"
    /\ in_rows(param_rows, entry_id)
    /\ \/ update_row_index = None
       \/ /\ update_row_index \in 0..(Len(param_entry_rows) - 1)
          /\ param_entry_rows[update_row_index + 1].entry_id = entry_id
    /\ param_rows' = set_entry_id_rows(param_rows, entry_id, new_id)
    /\ param_entry_rows' =
          set_entry_id_entry_rows(param_entry_rows, param_rows, entry_id, new_id, update_row_index)
    /\ param_call' = [op |-> "_set_entry_id",
                      clash |-> new_id # entry_id /\ in_rows(param_rows, new_id),
                      store_kept |-> set_entry_id_rows(param_rows, entry_id, new_id) = param_rows]
    /\ param_before' =
          IF new_id = entry_id \/ in_rows(param_rows, new_id) THEN NoParamBefore
          ELSE IF /\ param_before.kind = "set_id"
                  /\ param_before.new = entry_id
                  /\ param_before.old = new_id
          THEN [param_before EXCEPT !.kind = "set_id_back"]
          ELSE [kind |-> "set_id", rows |-> param_rows, old |-> entry_id, new |-> new_id]
    /\ UNCHANGED <<param_first_display_index, param_active_row_index, not_param_vars>>

PARAMS_ENTRY_RANGE_SIZE == 300

\* get_entry_index(entry_id): sorted(param.rows).index(entry_id), from 0.
params_get_entry_index(rows, entry_id) == row_position(sorted_rows(rows), entry_id) - 1

\* Param.get_range(start, count): the entry rows for the sorted rows start..start+count-1.
params_get_range(rows, start, count) ==
    LET shown == SubSeq(sorted_rows(rows), start + 1, Min(start + count, Len(rows)))
    IN  [i \in 1..Len(shown) |-> [entry_id |-> shown[i].id, entry_text |-> shown[i].data.Name]]

\* first_display_index after select_entry_id(entry_id): the start of the page of the entry.
params_jump_to_key(rows, entry_id) ==
    (params_get_entry_index(rows, entry_id) \div PARAMS_ENTRY_RANGE_SIZE)
        * PARAMS_ENTRY_RANGE_SIZE

\* The ID go_to_param_id selects for the text of the Entry: the ID itself when it is a row,
\* otherwise the closest row ID below it; None when it flashes the Entry instead.
go_to_param_id_target(rows, param_id) ==
    IF param_id = None THEN None
    ELSE IF in_rows(rows, param_id) THEN param_id
    ELSE IF \A i \in 1..Len(rows) : rows[i].id >= param_id THEN None
    ELSE CHOOSE p_id \in {rows[i].id : i \in 1..Len(rows)} :
            /\ p_id < param_id
            /\ \A i \in 1..Len(rows) : rows[i].id < param_id => rows[i].id <= p_id

\* What select_entry_id(entry_id) leaves: the page of the entry is displayed and the row of
\* the entry is the active row.
params_select_entry_id(rows, entry_id) ==
    LET first == params_jump_to_key(rows, entry_id)
    IN  [entry_rows |-> params_get_range(rows, first, PARAMS_ENTRY_RANGE_SIZE),
         first_display_index |-> first,
         active_row_index |-> params_get_entry_index(rows, entry_id) - first]

\* <Return> in the 'Go to Param ID' Entry: go_to_param_id(event); param_id is None for an
\* empty Entry.  An ID change on record is no longer the last thing done to the param.
go_to_param_id(param_id) ==
    /\ tab = "params"
    /\ LET target == go_to_param_id_target(param_rows, param_id)
           selected == params_select_entry_id(param_rows, target)
       IN  IF target = None
           THEN UNCHANGED <<param_entry_rows, param_first_display_index,
                            param_active_row_index>>
           ELSE /\ param_entry_rows' = selected.entry_rows
                /\ param_first_display_index' = selected.first_display_index
                /\ param_active_row_index' = selected.active_row_index
    /\ param_before' = NoParamBefore
    /\ UNCHANGED <<param_rows, param_call, not_param_vars>>

ParamsNext ==
    \/ /\ tab = "params"
       /\ \E entry_id \in ParamIds :
            /\ in_rows(param_rows, entry_id)
            /\ \E new_id \in ParamIds, update_row_index \in {None} \cup 0..MaxParamId :
                    _set_entry_id(entry_id, new_id, update_row_index)
    \/ \E param_id \in {None} \cup 0..(MaxParamId + 1) : go_to_param_id(param_id)

(***************************************************************************)
(* The Tk window: one editor tab is open                                   *)
(***************************************************************************)

TkInit ==
    /\ QtIdle
    /\ WidgetsIdle
    /\ \/ tab = "ai" /\ AIInit /\ ParamsIdle
       \/ tab = "params" /\ AIIdle /\ ParamsInit

TkNext == AINext \/ ParamsNext

SpecTk == TkInit /\ [][TkNext]_vars

(***************************************************************************)
(* The AIEditor over several maps, with its action history                 *)
(***************************************************************************)

\* Most goals of a map, and most actions on record, where maps are switched.
MaxMapGoals == 1
MaxHistory == 2

\* The goals of the maps after the map choice: the selected map's goals are `goals`.
other_maps_after(choice) ==
    [m \in Maps \ {choice} |-> IF m = selected_map_id THEN goals ELSE ai_other_maps[m]]

selected_goals_after(choice) ==
    IF choice = selected_map_id THEN goals ELSE ai_other_maps[choice]

\* An on_map_choice that never asks about unsaved changes.
on_map_choice_stays_unasked(S, lose_changes) == FALSE

\* on_map_choice returns early: a row is active and _ignored_unsaved() is False.
on_map_choice_stays(S, lose_changes) == S.active # None /\ ~_ignored_unsaved(S, lose_changes)

\* The user picks `choice` in the map Combobox: on_map_choice(event).
on_map_choice(choice, lose_changes) ==
    /\ tab = "ai"
    /\ IF on_map_choice_stays(AIState, lose_changes)
       THEN /\ map_choice' = selected_map_id
            /\ ai_call' = Call("on_map_choice", "stayed", NoCall.key, 0)
            /\ UNCHANGED <<goals, entry_rows, active_row_index, e_entry_text_edit,
                           e_entry_id_edit, lua_script_editor, buttons, selected_map_id,
                           ai_other_maps>>
       ELSE /\ selected_map_id' = choice
            /\ map_choice' = choice
            /\ ai_other_maps' = other_maps_after(choice)
            /\ AIBecomes(refresh_entries(
                    select_entry_row_index([AIState EXCEPT !.goals = selected_goals_after(choice)],
                                           None, TRUE, FALSE, FALSE, TRUE),
                    TRUE))
            /\ ai_call' = NoCall
    /\ UNCHANGED <<action_history, not_ai_vars>>

\* The parameters of _set_entry_text (without self), and those without a default.
_set_entry_text_parameters == {"entry_id", "text", "goal_type", "category", "update_row_index"}
_set_entry_text_required == {"entry_id", "text"}

\* functools.partial(self._set_entry_text, **keywords)
partial_set_entry_text(keywords) == [func |-> "_set_entry_text", keywords |-> keywords]

\* The partials change_entry_text hands to record_action for a change to new_text.
change_entry_text_undo(goal, new_text, current_text) ==
    partial_set_entry_text([entry_id |-> goal.goal_id, new_text |-> new_text, category |-> None])

change_entry_text_redo(goal, new_text, current_text) ==
    partial_set_entry_text([entry_id |-> goal.goal_id, new_text |-> current_text,
                            category |-> None])

\* Calling a partial of _set_entry_text: a keyword that is no parameter, or a parameter
\* without default that is not given, raises TypeError; goal_type keeps its default None,
\* and get_goal(entry_id, None) finds no goal.  The state is then as it was.
call_partial(S, partial) ==
    IF \/ ~(DOMAIN partial.keywords \subseteq _set_entry_text_parameters)
       \/ ~(_set_entry_text_required \subseteq DOMAIN partial.keywords)
    THEN S
    ELSE IF "goal_type" \notin DOMAIN partial.keywords THEN S
    ELSE _set_entry_text(S, partial.keywords.entry_id, partial.keywords.text,
                         partial.keywords.goal_type, None)

\* change_entry_text records an action: the text differs and _set_entry_text returned True.
change_entry_text_records(S, row_index, new_text) ==
    /\ get_goal(S, row_index).goal_name # new_text
    /\ ~goal_name_raises(get_goal(S, row_index).goal_type, new_text)

\* change_entry_text(row_index, new_text) with record_action=True.
change_entry_text_called(row_index, new_text) ==
    /\ tab = "ai"
    /\ row_index \in 0..(Len(entry_rows) - 1)
    /\ Len(action_history) < MaxHistory
    /\ AIBecomes(change_entry_text(AIState, row_index, new_text))
    /\ LET goal == get_goal(AIState, row_index)
       IN  IF change_entry_text_records(AIState, row_index, new_text)
           THEN /\ action_history' =
                      Append(action_history,
                             [undo |-> change_entry_text_undo(goal, new_text, goal.goal_name),
                              redo |-> change_entry_text_redo(goal, new_text, goal.goal_name)])
                /\ ai_call' = Call("change_entry_text", "recorded", goal_key(goal), 0)
           ELSE /\ action_history' = action_history
                /\ ai_call' = NoCall
    /\ UNCHANGED <<selected_map_id, map_choice, ai_other_maps, not_ai_vars>>

\* The undo of the last action on record is invoked.
undo_recorded_action ==
    /\ tab = "ai"
    /\ action_history # <<>>
    /\ AIBecomes(call_partial(AIState, action_history[Len(action_history)].undo))
    /\ ai_call' = [NoCall EXCEPT !.op = "undo"]
    /\ UNCHANGED <<map_vars, not_ai_vars>>

\* The redo of the last action on record is invoked.
redo_recorded_action ==
    /\ tab = "ai"
    /\ action_history # <<>>
    /\ AIBecomes(call_partial(AIState, action_history[Len(action_history)].redo))
    /\ ai_call' = [NoCall EXCEPT !.op = "redo"]
    /\ UNCHANGED <<map_vars, not_ai_vars>>

\* The editor is built on a project whose maps hold up to MaxMapGoals goals each.
MapGoalLists ==
    UNION {{gs \in GoalLists(MaxMapGoals, script) : distinct_keys(gs)} : script \in Scripts}

TkMapsInit ==
    /\ tab = "ai"
    /\ QtIdle
    /\ WidgetsIdle
    /\ ParamsIdle
    /\ selected_map_id = FirstMap
    /\ map_choice = FirstMap
    /\ goals \in MapGoalLists
    /\ ai_other_maps \in [Maps \ {FirstMap} -> MapGoalLists]
    /\ action_history = <<>>
    /\ scripts = NoScripts
    /\ entry_rows = <<>>
    /\ active_row_index = None
    /\ e_entry_text_edit = None
    /\ e_entry_id_edit = None
    /\ lua_script_editor = [state |-> "disabled", text |-> ""]
    /\ buttons = [confirm |-> "disabled", compile |-> "disabled", write |-> "disabled",
                  reload |-> "normal"]
    /\ ai_call = NoCall

TkMapsNext ==
    \/ \E choice \in Maps, lose_changes \in LoseChanges : on_map_choice(choice, lose_changes)
    \/ ai_refresh_entries
    \/ \E i \in 0..(MaxMapGoals - 1), id_clicked \in BOOLEAN, lose_changes \in LoseChanges :
            click_entry_row(i, id_clicked, lose_changes)
    \/ cancel_entry_text_edit
    \/ cancel_entry_id_edit
    \/ \E text \in Scripts : edit_script_text(text)
    \/ \E i \in 0..(MaxMapGoals - 1), new_text \in Names : change_entry_text_called(i, new_text)
    \/ undo_recorded_action
    \/ redo_recorded_action

SpecTkMaps == TkMapsInit /\ [][TkMapsNext]_vars

(***************************************************************************)
(* Properties of the inline edits and of the goal and row stores           *)
(***************************************************************************)

\* The step is a call of select_entry_id, whose refresh_entries destroys both Entries before
\* its select_entry_row_index starts an edit.
select_entry_id_step ==
    \E i \in 1..Len(goals), lose_changes \in BOOLEAN :
        select_entry_id_called(goals[i].goal_id, goals[i].goal_type, lose_changes)

\* C1: in the AIEditor the text-edit Entry and the ID-edit Entry are never both present, and
\* no handler opens an edit (or moves one to another row) while either Entry is present:
\* when a step opens one, neither was present before it or the handler destroyed both first.
C1_AtMostOneInlineEdit ==
    /\ [](e_entry_text_edit = None \/ e_entry_id_edit = None)
    /\ [][(\/ e_entry_text_edit' \notin {None, e_entry_text_edit}
           \/ e_entry_id_edit' \notin {None, e_entry_id_edit})
            => \/ e_entry_text_edit = None /\ e_entry_id_edit = None
               \/ select_entry_id_step]_vars

\* C1 witness: a click on the active row asked for a new edit while the ID-edit Entry was
\* present, and no edit was opened.
C1_Witness ==
    /\ ai_call.op = "select_entry_row_index"
    /\ ai_call.result = "edit refused"
    /\ e_entry_id_edit # None
    /\ e_entry_text_edit = None

\* C2: in the AIEditor no two goals of the selected map share a (goal_id, goal_type) pair,
\* whatever adds, ID changes, type changes and deletions have been made.
C2_GoalKeysUnique == distinct_keys(goals)

\* C2 witness: a goal has been added whose ID another goal of the map has too, under
\* another type.
C2_Witness ==
    /\ ai_call.op = "_add_entry"
    /\ ai_call.result = "added"
    /\ \E i, j \in 1..Len(goals) :
        /\ goal_key(goals[i]) = ai_call.key
        /\ goals[j].goal_id = goals[i].goal_id
        /\ goals[j].goal_type # goals[i].goal_type

\* C8: changing an entry's ID to an ID that is already present (ParamsEditor._set_entry_id on
\* a row ID of the param; AIEditor.change_entry_id on the ID of a goal of the same type)
\* leaves the store as it was.
C8_IdClashLeavesStoreUnchanged ==
    /\ (ai_call.op = "change_entry_id" /\ ai_call.result = "clash")
            => goals = ai_call.goals_before
    /\ (param_call.op = "_set_entry_id" /\ param_call.clash) => param_call.store_kept

\* C9: changing an entry's ID from old to an absent ID new and then from new back to old
\* leaves the key set, every record's fields and the canonical order as they were: the
\* goals list in the AIEditor, the rows in ascending ID order in the ParamsEditor.
C9_IdChangeRoundTrip ==
    /\ (ai_call.op = "change_entry_id" /\ ai_call.result = "changed back")
            => goals = ai_call.goals_before
    /\ param_before.kind = "set_id_back"
            => sorted_rows(param_rows) = sorted_rows(param_before.rows)

\* C9 witness: a param row's ID has been changed and changed back, in a param of several
\* rows whose dictionary order is no longer the one before the changes.
C9_Witness ==
    /\ param_before.kind = "set_id_back"
    /\ Len(param_rows) > 1
    /\ param_rows # param_before.rows

\* C10: in the AIEditor, adding a goal with a fresh (id, type) and then deleting that goal
\* leaves the goals list as it was before the add (same length, same order).
C10_AddThenDeleteRestoresGoals ==
    (ai_call.op = "delete_entry" /\ ai_call.result = "deleted the added goal")
        => goals = ai_call.goals_before

\* C10 witness: the goal that was added between two goals of the map has been deleted.
C10_Witness ==
    /\ ai_call.op = "delete_entry"
    /\ ai_call.result = "deleted the added goal"
    /\ Len(goals) = 2

(***************************************************************************)
(* Properties of the AIEditor's handlers                                   *)
(***************************************************************************)

\* The goals list gs with new_goal put at list index p (from 0).
goal_placed_at(gs, before, p, key) ==
    /\ Len(gs) = Len(before) + 1
    /\ goal_key(gs[p + 1]) = key
    /\ list_remove_at(gs, p + 1) = before

\* C11: for goals of length n and every p in 0..n, _add_entry(..., at_index=p) places the
\* new goal at list index p and keeps the other goals in their order; with at_index omitted
\* the new goal is appended at the end.
C11_AddEntryPlacesGoalAtIndex ==
    [][Len(goals') = Len(goals) + 1 =>
        \A entry_id \in GoalIds, text \in Names, goal_type \in GoalTypes,
           lose_changes \in BOOLEAN :
            /\ \A p \in 0..Len(goals) :
                    add_entry(entry_id, text, goal_type, p, lose_changes)
                        => goal_placed_at(goals', goals, p, <<entry_id, goal_type>>)
            /\ add_entry(entry_id, text, goal_type, None, lose_changes)
                    => goal_placed_at(goals', goals, Len(goals), <<entry_id, goal_type>>)]_vars

\* Some displayed row shows the goal (entry_id, goal_type).
key_displayed(rows, entry_id, goal_type) ==
    \E i \in 1..Len(rows) : rows[i].entry_id = entry_id /\ rows[i].goal_type = goal_type

\* The active row is a displayed row and shows the goal (entry_id, goal_type).
active_row_shows(rows, active, entry_id, goal_type) ==
    /\ active \in 0..(Len(rows) - 1)
    /\ rows[active + 1].entry_id = entry_id
    /\ rows[active + 1].goal_type = goal_type

\* The active row of the ParamsEditor is a displayed row and shows the row ID.
params_active_row_shows(rows, active, entry_id) ==
    /\ active \in 0..(Len(rows) - 1)
    /\ rows[active + 1].entry_id = entry_id

\* go_to_param_id for an ID of the active param shows that ID in the active row.
go_to_param_id_shows_id ==
    \A param_id \in ParamIds :
        in_rows(param_rows, param_id) =>
            LET R == params_select_entry_id(param_rows,
                                            go_to_param_id_target(param_rows, param_id))
            IN  params_active_row_shows(R.entry_rows, R.active_row_index, param_id)

\* C12: after AIEditor.select_entry_id(entry_id, goal_type) for an existing goal, or
\* ParamsEditor.go_to_param_id for an ID of the active param, the entry with that key is
\* among the displayed rows and the active row is the row showing exactly that key.
C12_SelectEntryIdShowsKey ==
    /\ \A i \in 1..Len(goals), lose_changes \in BOOLEAN :
            LET R == select_entry_id(AIState, goals[i].goal_id, goals[i].goal_type, TRUE,
                                     lose_changes)
            IN  /\ key_displayed(R.rows, goals[i].goal_id, goals[i].goal_type)
                /\ active_row_shows(R.rows, R.active, goals[i].goal_id, goals[i].goal_type)
    /\ go_to_param_id_shows_id

\* C12 as amended: the same, unless in the AIEditor another row is active, the script
\* editor's text differs from that row's stored script and the user declines to lose the
\* changes; then the entry is among the displayed rows and the active row stays as it was.
C12_SelectEntryIdShowsKeyUnlessDeclined ==
    /\ \A i \in 1..Len(goals), lose_changes \in BOOLEAN :
            LET R == select_entry_id(AIState, goals[i].goal_id, goals[i].goal_type, TRUE,
                                     lose_changes)
            IN  /\ key_displayed(R.rows, goals[i].goal_id, goals[i].goal_type)
                /\ IF unsaved_changes /\ active_row_index # i - 1 /\ ~lose_changes
                   THEN R.active = active_row_index
                   ELSE active_row_shows(R.rows, R.active,
                                         goals[i].goal_id, goals[i].goal_type)
    /\ go_to_param_id_shows_id

\* C12 witness: _add_entry has put a goal between two others and its select_entry_id has
\* made the row of the new goal the active row.
C12_Witness ==
    /\ ai_call.op = "_add_entry"
    /\ ai_call.result = "added"
    /\ Len(goals) = 3
    /\ active_row_index = 1
    /\ active_row_shows(entry_rows, active_row_index, ai_call.key[1], ai_call.key[2])

\* C13: after delete_entry(row_index) on the active row, the goal shown at that row is no
\* longer a goal of the selected map, the goals are one fewer with all the others kept in
\* order, no row is active and no inline edit is open.
C13_DeleteEntryRemovesActiveGoal ==
    active_row_index # None =>
        LET row == entry_rows[active_row_index + 1]
            R == delete_entry(AIState, active_row_index, TRUE)
        IN  /\ ~in_goal_dict(R.goals, row.entry_id, row.goal_type)
            /\ Len(R.goals) = Len(goals) - 1
            /\ \E pos \in 1..Len(goals) :
                    /\ goal_key(goals[pos]) = <<row.entry_id, row.goal_type>>
                    /\ R.goals = list_remove_at(goals, pos)
            /\ R.active = None
            /\ R.e_text = None
            /\ R.e_id = None

\* C13 witness: delete_entry has removed the active row's goal from a map of two goals, and
\* no row is active.
C13_Witness ==
    /\ ai_call.op = "delete_entry"
    /\ Len(ai_call.goals_before) = 1
    /\ goals = ai_call.goals_before
    /\ Len(entry_rows) = 1
    /\ active_row_index = None
    /\ e_entry_text_edit = None
    /\ e_entry_id_edit = None

\* C15: when select_entry_row_index moves the active row to a different row, an inline text
\* or ID edit open on the previous row is closed: an inline edit is never open on a row that
\* is not the active row.
C15_InlineEditOnlyOnActiveRow ==
    /\ e_entry_text_edit \in {None, active_row_index}
    /\ e_entry_id_edit \in {None, active_row_index}

\* C17: _add_entry called with a negative ID, or with an (id, goal_type) pair that a goal of
\* the map has, leaves the goals list, every goal's id, type and name, the displayed rows,
\* the active row and the inline edits exactly as they were.
C17_FailedAddEntryChangesNothing ==
    \A entry_id \in {0 - 1} \cup GoalIds, text \in Names, goal_type \in GoalTypes,
       at_index \in {None} \cup 0..Len(goals), lose_changes \in BOOLEAN :
        (entry_id < 0 \/ in_goal_dict(goals, entry_id, goal_type)) =>
            LET R == _add_entry(AIState, entry_id, text, goal_type, at_index,
                                new_goal_for(text), lose_changes)
            IN  /\ R.goals = goals
                /\ R.rows = entry_rows
                /\ R.active = active_row_index
                /\ R.e_text = e_entry_text_edit
                /\ R.e_id = e_entry_id_edit

\* C17 witness: _add_entry has failed while a row was active and its ID-edit Entry open, and
\* both are as they were.
C17_Witness ==
    /\ ai_call.op = "_add_entry"
    /\ ai_call.result = "failed"
    /\ active_row_index # None
    /\ e_entry_id_edit = active_row_index
    /\ Len(goals) = 2

\* C14: on_map_choice: if a row is active, the script editor's text differs from the active
\* goal's stored script and the user declines to lose the changes, then selected_map_id, the
\* displayed map choice, the active row and the editor text are as before the attempt; in
\* every other case selected_map_id is the chosen map, no row is active and no inline edit
\* is open.
C14_MapChoiceStaysOrChangesMap ==
    [][\A choice \in Maps, lose_changes \in BOOLEAN :
        on_map_choice(choice, lose_changes) =>
            IF /\ active_row_index # None
               /\ lua_script_editor.text # get_goal(AIState, active_row_index).script
               /\ ~lose_changes
            THEN /\ selected_map_id' = selected_map_id
                 /\ map_choice' = map_choice
                 /\ active_row_index' = active_row_index
                 /\ lua_script_editor' = lua_script_editor
            ELSE /\ selected_map_id' = choice
                 /\ active_row_index' = None
                 /\ e_entry_text_edit' = None
                 /\ e_entry_id_edit' = None]_vars

\* C14 witness: the user has declined to lose the changed script text of the active row,
\* and the map, the row and the text are still there.
C14_Witness ==
    /\ ai_call.op = "on_map_choice"
    /\ ai_call.result = "stayed"
    /\ active_row_index # None
    /\ lua_script_editor.text # get_goal(AIState, active_row_index).script
    /\ map_choice = selected_map_id

\* C18: after change_entry_text(row, new_text) has recorded an action, invoking the recorded
\* undo sets the goal's name back to the text it had before the change, and invoking the
\* recorded redo after that sets it to new_text again.
C18_TextChangeUndoRedo ==
    (ai_call.op = "change_entry_text" /\ ai_call.result = "recorded") =>
        LET recorded == action_history[Len(action_history)]
            pos == goal_position(goals, ai_call.key[1], ai_call.key[2])
            undone == call_partial(AIState, recorded.undo)
            redone == call_partial(undone, recorded.redo)
        IN  /\ undone.goals[pos].goal_name = ai_call.goals_before[pos].goal_name
            /\ redone.goals[pos].goal_name = goals[pos].goal_name

(***************************************************************************)
(* One QEntryRow of the Qt editors: the inline edit of its name            *)
(***************************************************************************)

MaxEmitted == 2

\* What update_entry may be given and what the user may type into the line edit.
EntryNames == {"", "Foo", "Bar"}

name_edit_open == ~entry_row.name_line_edit.hidden

\* update_entry(entry_name=...): an empty name raises ValueError before anything is set.
\* entry_index and entry_id are both None since __init__, so neither branch stores one.
QEntryRow_update_entry(entry_name) ==
    /\ tab = "widgets"
    /\ entry_row' =
         IF entry_name = ""
         THEN entry_row
         ELSE [entry_row EXCEPT !.name_label.text = entry_name,
                                !.name_line_edit.text = entry_name]
    /\ UNCHANGED not_entry_row_vars

\* A mouse press on the name label, which is possible while the label is shown.
_start_name_edit ==
    /\ tab = "widgets"
    /\ ~entry_row.name_label.hidden
    /\ entry_row' = [entry_row EXCEPT !.name_label.hidden = TRUE,
                                      !.name_line_edit.hidden = FALSE]
    /\ UNCHANGED not_entry_row_vars

\* The user types into the line edit while it is shown.
type_name(text) ==
    /\ tab = "widgets"
    /\ name_edit_open
    /\ entry_row' = [entry_row EXCEPT !.name_line_edit.text = text]
    /\ UNCHANGED not_entry_row_vars

\* returnPressed or editingFinished of the line edit. A text that differs from the label
\* is written to the label and emitted, whatever it is. The signal is declared
\* (int, int, str) and is emitted with the row's entry_index and entry_id, which are None:
\* the binding either delivers it or raises TypeError, and then the handler ends after
\* the label was set, with the line edit still shown.
_finish_name_edit(delivered) ==
    /\ tab = "widgets"
    /\ name_edit_open
    /\ Len(entry_row.entry_text_changed) < MaxEmitted
    /\ LET new_text == entry_row.name_line_edit.text
           changed == new_text # entry_row.name_label.text
           labelled == IF changed THEN [entry_row EXCEPT !.name_label.text = new_text]
                                  ELSE entry_row
           emitted == [labelled EXCEPT !.entry_text_changed = Append(@, new_text)]
           closed(row) == [row EXCEPT !.name_line_edit.hidden = TRUE,
                                      !.name_label.hidden = FALSE]
       IN  entry_row' = IF ~changed THEN closed(entry_row)
                        ELSE IF delivered THEN closed(emitted)
                        ELSE labelled
    /\ UNCHANGED not_entry_row_vars

\* focusOutEvent of the line edit: the label's text is put back and the label is shown.
_cancel_name_edit ==
    /\ tab = "widgets"
    /\ name_edit_open
    /\ entry_row' = [entry_row EXCEPT !.name_line_edit.text = entry_row.name_label.text,
                                      !.name_line_edit.hidden = TRUE,
                                      !.name_label.hidden = FALSE]
    /\ UNCHANGED not_entry_row_vars

QEntryRowNext ==
    \/ \E entry_name \in EntryNames : QEntryRow_update_entry(entry_name)
    \/ _start_name_edit
    \/ \E text \in EntryNames : type_name(text)
    \/ \E delivered \in BOOLEAN : _finish_name_edit(delivered)
    \/ _cancel_name_edit

QEntryRowSpecInit ==
    /\ EditorsIdle
    /\ entry_row = QEntryRowInit
    /\ tooltip = NoWidget
    /\ super_frame = NoWidget
    /\ dialog = NoWidget

SpecRow == QEntryRowSpecInit /\ [][QEntryRowNext]_vars

\* C16: committing an inline name edit whose pending text is empty leaves the displayed
\* name as it was, emits no entry_text_changed signal and leaves the edit open.
C16_EmptyNameCommitRejected ==
    [][((\E delivered \in BOOLEAN : _finish_name_edit(delivered))
            /\ entry_row.name_line_edit.text = "")
        => /\ entry_row'.name_label.text = entry_row.name_label.text
           /\ entry_row'.entry_text_changed = entry_row.entry_text_changed
           /\ ~entry_row'.name_line_edit.hidden]_vars

(***************************************************************************)
(* One ToolTip bound to several widgets                                    *)
(***************************************************************************)

MaxWidgets == 3
MaxAfter == 4

\* The main widget and the child widgets nested in it. Tk does not report a crossing
\* between a widget and a widget nested in it to the outer one, so the pointer can have
\* entered several of them.
ToolTipWidgets == <<"main_widget", "child_widget_1", "child_widget_2", "child_widget_3">>

\* The widget the three bound lambdas pass on. They are created in the loop
\* `for widget in self.widgets` and read `widget` when they are called, which is after
\* the loop has ended: each of them passes the last widget.
bound_widget(T) == T.widgets[Len(T.widgets)]

any_widget_status(T) == \E w \in DOMAIN T.widget_status : T.widget_status[w]

unschedule(T) ==
    [T EXCEPT !.schedule_id = None,
              !.after_pending = IF T.schedule_id # None THEN FALSE ELSE @]

schedule(T) ==
    [unschedule(T) EXCEPT !.schedule_id = T.after_count + 1,
                          !.after_count = T.after_count + 1,
                          !.after_pending = TRUE]

show_tip(T) == [T EXCEPT !.tip_box = TRUE]

hide_tip(T) == [T EXCEPT !.tip_box = FALSE]

enter(T, widget) ==
    IF T.text = NoText THEN T
    ELSE LET schedule_tip == ~any_widget_status(T)
             entered == [T EXCEPT !.widget_status[widget] = TRUE]
         IN  IF schedule_tip THEN schedule(entered) ELSE entered

leave(T, widget) ==
    IF T.text = NoText THEN T
    ELSE LET left == [T EXCEPT !.widget_status[widget] = FALSE]
         IN  IF ~any_widget_status(left) THEN hide_tip(unschedule(left)) ELSE left

\* <Enter> on one of the widgets.
pointer_enters(w) ==
    /\ tab = "widgets"
    /\ w \in DOMAIN tooltip.widget_status
    /\ w \notin tooltip.pointer_in
    /\ tooltip.after_count < MaxAfter
    /\ tooltip' = [enter(tooltip, bound_widget(tooltip)) EXCEPT !.pointer_in = @ \cup {w}]
    /\ UNCHANGED not_tooltip_vars

\* <Leave> on one of the widgets.
pointer_leaves(w) ==
    /\ tab = "widgets"
    /\ w \in tooltip.pointer_in
    /\ tooltip' = [leave(tooltip, bound_widget(tooltip)) EXCEPT !.pointer_in = @ \ {w}]
    /\ UNCHANGED not_tooltip_vars

\* <ButtonPress> on one of the widgets, with the pointer inside it.
button_pressed(w) ==
    /\ tab = "widgets"
    /\ w \in tooltip.pointer_in
    /\ tooltip' = leave(tooltip, bound_widget(tooltip))
    /\ UNCHANGED not_tooltip_vars

\* The delay has passed and Tk runs the pending `after` callback.
after_delay ==
    /\ tab = "widgets"
    /\ tooltip.after_pending
    /\ tooltip' = [show_tip(tooltip) EXCEPT !.after_pending = FALSE]
    /\ UNCHANGED not_tooltip_vars

ToolTipNext ==
    \/ \E i \in 1..MaxWidgets : pointer_enters(ToolTipWidgets[i])
    \/ \E i \in 1..MaxWidgets : pointer_leaves(ToolTipWidgets[i])
    \/ \E i \in 1..MaxWidgets : button_pressed(ToolTipWidgets[i])
    \/ after_delay

ToolTipSpecInit ==
    /\ EditorsIdle
    /\ entry_row = NoWidget
    /\ super_frame = NoWidget
    /\ dialog = NoWidget
    /\ \E n \in 2..MaxWidgets, text \in {NoText, "tool tip"} :
            tooltip = ToolTip_init(SubSeq(ToolTipWidgets, 1, n), text)

SpecToolTip == ToolTipSpecInit /\ [][ToolTipNext]_vars

tip_scheduled_or_shown(T) == T.after_pending \/ T.tip_box

\* C19: for a ToolTip with a text, bound to several widgets: when the pointer enters a
\* widget while it is inside none, the tip is scheduled; when it leaves a widget and is
\* still inside another, the schedule and the tip stay as they are; when it leaves the
\* last widget it was inside, the tip is unscheduled and hidden.
C19_TipFollowsPointerOverAllWidgets ==
    [][(tooltip.text # NoText /\ tooltip'.pointer_in # tooltip.pointer_in) =>
        /\ (tooltip.pointer_in = {}) => tooltip'.after_pending
        /\ (tooltip'.pointer_in # {} /\ tooltip'.pointer_in \subseteq tooltip.pointer_in) =>
                /\ tooltip'.after_pending = tooltip.after_pending
                /\ tooltip'.schedule_id = tooltip.schedule_id
                /\ tooltip'.tip_box = tooltip.tip_box
        /\ (tooltip'.pointer_in = {}) => ~tip_scheduled_or_shown(tooltip')]_vars

(***************************************************************************)
(* One SuperFrame (SmartFrame): `with self.set_master(...)` blocks         *)
(***************************************************************************)

MaxDepth == 2
MaxFrames == 3
MaxRow == 1

\* The grid_defaults dicts a caller passes.
GridDefaults == {{}, {<<"padx", 2>>}}

\* The values of auto_rows, auto_columns and of start in start_auto_rows / _columns.
AutoStarts == {0}

\* What the claim speaks of: the current frame, row, column and grid defaults.
frame_context(T) ==
    [current_frame |-> T.current_frame, current_row |-> T.current_row,
     current_column |-> T.current_column, grid_defaults |-> T.grid_defaults]

\* embed_component places a widget that is given no row and no column: it takes the
\* current row and the current column when they are numbered, and moves each on by one.
embed_component(T) ==
    [T EXCEPT !.current_row = IF @ = None THEN None ELSE @ + 1,
              !.current_column = IF @ = None THEN None ELSE @ + 1]

can_embed(T) == T.current_row < MaxRow /\ T.current_column < MaxRow

\* The `finally` of set_master, with the locals ctx of the block that is left.
restore_keeping_column(T, ctx) ==
    [T EXCEPT !.current_row = ctx.previous_auto_row,
              !.grid_defaults = IF ctx.grid_defaults_given THEN ctx.previous_grid_defaults
                                ELSE @,
              !.current_frame = ctx.previous_frame]

restore(T, ctx) ==
    [T EXCEPT !.current_row = ctx.previous_auto_row,
              !.current_column = ctx.previous_auto_column,
              !.grid_defaults = IF ctx.grid_defaults_given THEN ctx.previous_grid_defaults
                                ELSE @,
              !.current_frame = ctx.previous_frame]

\* An exception is on its way out of the block that was left last.
raising(T) == T.last_exit.how = "raised"

\* Each of frame, row, column and grid defaults differs between the two.
all_differ(T, U) ==
    /\ T.current_frame # U.current_frame
    /\ T.current_row # U.current_row
    /\ T.current_column # U.current_column
    /\ T.grid_defaults # U.grid_defaults

\* The innermost block is left: its `finally` runs and its locals are gone.
leave_block(T, how) ==
    LET ctx == T.stack[Len(T.stack)]
        restored == restore(T, ctx)
    IN  [restored EXCEPT !.stack = SubSeq(T.stack, 1, Len(T.stack) - 1),
                         !.last_exit = [how |-> how, all_differed |-> all_differ(T, restored)]]

\* `with self.set_master(master, auto_rows, auto_columns, grid_defaults):` up to the
\* yield. new_frame: master is None or a frame class, and self.Frame(...) creates the
\* frame inside the enclosing one; otherwise master is an existing frame. A grid_defaults
\* of None is grid_defaults_given = FALSE.
set_master(new_frame, master, auto_rows, auto_columns, grid_defaults_given, grid_defaults) ==
    /\ tab = "widgets"
    /\ ~raising(super_frame)
    /\ Len(super_frame.stack) < MaxDepth
    /\ IF new_frame THEN super_frame.frames < MaxFrames /\ can_embed(super_frame)
                    ELSE master < super_frame.frames
    /\ LET previous_frame == super_frame.current_frame
           framed == IF new_frame
                     THEN [embed_component(super_frame) EXCEPT
                                !.current_frame = super_frame.frames, !.frames = @ + 1]
                     ELSE [super_frame EXCEPT !.current_frame = master]
           ctx == [previous_frame |-> previous_frame,
                   previous_auto_row |-> framed.current_row,
                   previous_auto_column |-> framed.current_column,
                   grid_defaults_given |-> grid_defaults_given,
                   previous_grid_defaults |->
                        IF grid_defaults_given THEN framed.grid_defaults ELSE {},
                   enclosing |-> frame_context([framed EXCEPT
                                                    !.current_frame = previous_frame])]
       IN  super_frame' =
             [framed EXCEPT !.current_row = auto_rows,
                            !.current_column = auto_columns,
                            !.grid_defaults = IF grid_defaults_given THEN grid_defaults ELSE @,
                            !.stack = Append(@, ctx)]
    /\ UNCHANGED not_super_frame_vars

\* A widget is created, inside a block or outside every block.
create_widget ==
    /\ tab = "widgets"
    /\ ~raising(super_frame)
    /\ can_embed(super_frame)
    /\ super_frame' = embed_component(super_frame)
    /\ UNCHANGED not_super_frame_vars

start_auto_rows(start) ==
    /\ tab = "widgets"
    /\ ~raising(super_frame)
    /\ super_frame' = [super_frame EXCEPT !.current_row = start]
    /\ UNCHANGED not_super_frame_vars

stop_auto_rows ==
    /\ tab = "widgets"
    /\ ~raising(super_frame)
    /\ super_frame' = [super_frame EXCEPT !.current_row = None]
    /\ UNCHANGED not_super_frame_vars

start_auto_columns(start) ==
    /\ tab = "widgets"
    /\ ~raising(super_frame)
    /\ super_frame' = [super_frame EXCEPT !.current_column = start]
    /\ UNCHANGED not_super_frame_vars

stop_auto_columns ==
    /\ tab = "widgets"
    /\ ~raising(super_frame)
    /\ super_frame' = [super_frame EXCEPT !.current_column = None]
    /\ UNCHANGED not_super_frame_vars

\* The body of the innermost block ends.
body_finishes ==
    /\ tab = "widgets"
    /\ ~raising(super_frame)
    /\ super_frame.stack # <<>>
    /\ super_frame' = leave_block(super_frame, "finished")
    /\ UNCHANGED not_super_frame_vars

\* The body of the innermost block raises, or an exception passes through the block
\* that encloses the one it has just left.
body_raises ==
    /\ tab = "widgets"
    /\ super_frame.stack # <<>>
    /\ super_frame' = leave_block(super_frame, "raised")
    /\ UNCHANGED not_super_frame_vars

\* The exception is caught, in the body of an enclosing block or outside every block.
exception_caught ==
    /\ tab = "widgets"
    /\ raising(super_frame)
    /\ super_frame' = [super_frame EXCEPT !.last_exit.how = "caught"]
    /\ UNCHANGED not_super_frame_vars

SuperFrameNext ==
    \/ \E new_frame \in BOOLEAN, master \in 0..(MaxFrames - 1), auto_rows \in {None} \cup AutoStarts, auto_columns \in {None} \cup AutoStarts, grid_defaults_given \in BOOLEAN, grid_defaults \in GridDefaults :
            set_master(new_frame, master, auto_rows, auto_columns, grid_defaults_given, grid_defaults)
    \/ create_widget
    \/ \E start \in AutoStarts : start_auto_rows(start)
    \/ stop_auto_rows
    \/ \E start \in AutoStarts : start_auto_columns(start)
    \/ stop_auto_columns
    \/ body_finishes
    \/ body_raises
    \/ exception_caught

SuperFrameSpecInit ==
    /\ EditorsIdle
    /\ entry_row = NoWidget
    /\ tooltip = NoWidget
    /\ dialog = NoWidget
    /\ super_frame = SuperFrameInit

SpecSuperFrame == SuperFrameSpecInit /\ [][SuperFrameNext]_vars

\* C20: when a `with set_master(...)` block is left, by the end of its body or by an
\* exception, the current frame, row, column and grid defaults are those of the enclosing
\* context when the body began, and the blocks that enclose it are still open (innermost
\* first).
C20_SetMasterRestoresEnclosingContext ==
    [][Len(super_frame'.stack) < Len(super_frame.stack) =>
        LET ctx == super_frame.stack[Len(super_frame.stack)]
        IN  /\ frame_context(super_frame') = ctx.enclosing
            /\ super_frame'.stack = SubSeq(super_frame.stack, 1, Len(super_frame.stack) - 1)
      ]_vars

\* C20 witness: an inner block has been left by an exception and each of frame, row,
\* column and grid defaults differs from what it was inside, with the outer block open
\* and automatic numbering going on in it.
C20_Witness ==
    /\ super_frame.last_exit.how = "raised"
    /\ super_frame.last_exit.all_differed
    /\ Len(super_frame.stack) = 1
    /\ super_frame.current_row # None
    /\ super_frame.current_column # None

(***************************************************************************)
(* One CustomDialog, built directly or through SuperFrame.CustomDialog     *)
(***************************************************************************)

MaxButtons == 2

\* The two copies of the window code: the package soulstruct_gui.window (super_frame.py,
\* custom_dialog.py) and the module soulstruct.gui.window (window.py).
WindowModules == {"soulstruct_gui.window", "soulstruct.gui.window"}

\* custom_dialog.py imports nothing but SuperFrame, and super_frame.py does not import
\* CustomDialog: the names bind_to_all_children (CustomDialog.__init__) and CustomDialog
\* (SuperFrame.CustomDialog) are not defined there, and reading them raises NameError.
\* window.py defines both.
raises_NameError(window_module) == window_module = "soulstruct_gui.window"

\* The values of default_output, cancel_output and return_output: None or a button index.
Outputs == {None} \cup 0..(MaxButtons - 1)

\* No dialog has been asked for.
NoDialog ==
    [phase |-> "none", window_module |-> "soulstruct.gui.window", via_super_frame |-> FALSE,
     button_names |-> 0, cancel_output_given |-> None,
     output |-> None, default_output |-> None, cancel_output |-> None,
     return_output |-> None, escape_enabled |-> TRUE, last_event |-> "none",
     clicked |-> None]

\* SuperFrame.CustomDialog: with one button and no cancel_output, default_output,
\* cancel_output and return_output are all 0.
single_button_defaults(button_names, cancel_output) == cancel_output = None /\ button_names = 1

\* CustomDialog(...) followed by go() up to the mainloop, or the NameError. button_names is
\* the number of buttons.
new_dialog(window_module, via_super_frame, button_names, default_output, cancel_output, return_output, escape_enabled) ==
    LET single == via_super_frame /\ single_button_defaults(button_names, cancel_output)
        called == [NoDialog EXCEPT !.window_module = window_module,
                                   !.via_super_frame = via_super_frame,
                                   !.button_names = button_names,
                                   !.cancel_output_given = cancel_output,
                                   !.escape_enabled = escape_enabled]
    IN  IF raises_NameError(window_module)
        THEN [called EXCEPT !.phase = "raised"]
        ELSE [called EXCEPT !.phase = "mainloop",
                            !.output = IF single THEN 0 ELSE default_output,
                            !.default_output = IF single THEN 0 ELSE default_output,
                            !.cancel_output = IF single THEN 0 ELSE cancel_output,
                            !.return_output = IF single THEN 0 ELSE return_output]

\* done(num): the output is set and the mainloop quits, so that go() returns the output.
done(D, num) == [D EXCEPT !.output = num, !.phase = "returned"]

\* wm_delete_window(): the bell rings when there is no cancel_output.
wm_delete_window(D) == IF D.cancel_output = None THEN D ELSE done(D, D.cancel_output)

\* return_event(): the bell rings when there is no return_output.
return_event(D) == IF D.return_output = None THEN D ELSE done(D, D.return_output)

\* <Escape> is bound to wm_delete_window only with escape_enabled.
escape_event(D) == IF D.escape_enabled THEN wm_delete_window(D) ELSE D

CustomDialog_called(window_module, via_super_frame, button_names, default_output, cancel_output, return_output, escape_enabled) ==
    /\ tab = "widgets"
    /\ dialog.phase = "none"
    /\ dialog' = new_dialog(window_module, via_super_frame, button_names, default_output,
                            cancel_output, return_output, escape_enabled)
    /\ UNCHANGED not_dialog_vars

button_clicked(i) ==
    /\ tab = "widgets"
    /\ dialog.phase = "mainloop"
    /\ i < dialog.button_names
    /\ dialog' = [done(dialog, i) EXCEPT !.last_event = "button", !.clicked = i]
    /\ UNCHANGED not_dialog_vars

window_closed ==
    /\ tab = "widgets"
    /\ dialog.phase = "mainloop"
    /\ dialog' = [wm_delete_window(dialog) EXCEPT !.last_event = "close"]
    /\ UNCHANGED not_dialog_vars

escape_pressed ==
    /\ tab = "widgets"
    /\ dialog.phase = "mainloop"
    /\ dialog' = [escape_event(dialog) EXCEPT !.last_event = "escape"]
    /\ UNCHANGED not_dialog_vars

return_pressed ==
    /\ tab = "widgets"
    /\ dialog.phase = "mainloop"
    /\ dialog' = [return_event(dialog) EXCEPT !.last_event = "return"]
    /\ UNCHANGED not_dialog_vars

\* The caller has its answer (or its exception) and may ask again.
dialog_forgotten ==
    /\ tab = "widgets"
    /\ dialog.phase \in {"returned", "raised"}
    /\ dialog' = NoDialog
    /\ UNCHANGED not_dialog_vars

DialogNext ==
    \/ \E window_module \in WindowModules, via_super_frame, escape_enabled \in BOOLEAN, button_names \in 1..MaxButtons, default_output, cancel_output, return_output \in Outputs :
            CustomDialog_called(window_module, via_super_frame, button_names, default_output,
                                cancel_output, return_output, escape_enabled)
    \/ \E i \in 0..(MaxButtons - 1) : button_clicked(i)
    \/ window_closed
    \/ escape_pressed
    \/ return_pressed
    \/ dialog_forgotten

DialogSpecInit ==
    /\ EditorsIdle
    /\ entry_row = NoWidget
    /\ tooltip = NoWidget
    /\ super_frame = NoWidget
    /\ dialog = NoDialog

SpecDialog == DialogSpecInit /\ [][DialogNext]_vars

\* What the claim says of the event the dialog was sent last.
dialog_follows_event(D, event, event_output) ==
    D.last_event = event =>
        IF event_output = None
        THEN D.phase = "mainloop" /\ D.output = D.default_output
        ELSE D.phase = "returned" /\ D.output = event_output

\* C21: go() returns the index of the clicked button, cancel_output after a close or an
\* Escape and return_output after an Enter; with cancel_output (return_output) None the
\* close or Escape (the Enter) does not end the dialog and leaves its output alone; and a
\* dialog asked of SuperFrame.CustomDialog with one button and no cancel_output returns 0.
C21_DialogOutputFollowsEvent ==
    dialog.phase # "none" =>
        /\ dialog.last_event = "button" =>
                dialog.phase = "returned" /\ dialog.output = dialog.clicked
        /\ dialog_follows_event(dialog, "close", dialog.cancel_output)
        /\ dialog_follows_event(dialog, "escape", dialog.cancel_output)
        /\ dialog_follows_event(dialog, "return", dialog.return_output)
        /\ (/\ dialog.via_super_frame
            /\ single_button_defaults(dialog.button_names, dialog.cancel_output_given)
            /\ dialog.phase # "mainloop") => dialog.phase = "returned" /\ dialog.output = 0

(***************************************************************************)
(* The AIEditor when the project's goal list shrinks under it              *)
(***************************************************************************)

\* The goals at the positions of `keep`, in their order.
RECURSIVE goals_kept(_, _)
goals_kept(gs, keep) ==
    IF gs = <<>> THEN <<>>
    ELSE LET front == goals_kept(SubSeq(gs, 1, Len(gs) - 1), keep)
         IN  IF Len(gs) \in keep THEN Append(front, gs[Len(gs)]) ELSE front

\* The rows are those of the last refresh_entries(): the goal list has not changed since.
rows_are_fresh == ai_call.op \notin {"goals removed", "refresh_entries"}

\* The goal list of self._project.ai loses goals outside the editor (the project reloads or
\* another tool edits it): the rows keep what they showed.
project_goals_removed(keep) ==
    /\ tab = "ai"
    /\ rows_are_fresh
    /\ entry_rows # <<>>
    /\ keep \subseteq 1..Len(goals)
    /\ keep # 1..Len(goals)
    /\ goals' = goals_kept(goals, keep)
    /\ ai_call' = Call("goals removed", "", NoCall.key, 0)
    /\ UNCHANGED <<entry_rows, active_row_index, e_entry_text_edit, e_entry_id_edit,
                   lua_script_editor, buttons, map_vars, not_ai_vars>>

\* refresh_entries(), called after the goal list has changed.
refresh_entries_called(lose_changes) ==
    /\ tab = "ai"
    /\ ai_call.op = "goals removed"
    /\ AIBecomes(refresh_entries(AIState, lose_changes))
    /\ ai_call' = Call("refresh_entries",
                       IF refresh_entries_raises(AIState) THEN "raised" ELSE "returned",
                       NoCall.key, 0)
    /\ UNCHANGED <<map_vars, not_ai_vars>>

RefreshNext ==
    \/ rows_are_fresh /\ ai_refresh_entries
    \/ /\ rows_are_fresh
       /\ \E i \in 0..(MaxGoals - 1), lose_changes \in LoseChanges :
              click_entry_row(i, FALSE, lose_changes)
    \/ rows_are_fresh /\ \E text \in Scripts : edit_script_text(text)
    \/ \E keep \in SUBSET (1..MaxGoals) : project_goals_removed(keep)
    \/ \E lose_changes \in BOOLEAN : refresh_entries_called(lose_changes)

RefreshInit == tab = "ai" /\ QtIdle /\ WidgetsIdle /\ ParamsIdle /\ AIInit

SpecRefresh == RefreshInit /\ [][RefreshNext]_vars

\* C22: after refresh_entries() has returned, the active row is None or the index of a
\* displayed row (active_row_index < displayed_entry_count).
C22_ActiveRowIsDisplayedAfterRefresh ==
    (ai_call.op = "refresh_entries" /\ ai_call.result = "returned") =>
        \/ active_row_index = None
        \/ active_row_index < Len(entry_rows)

(***************************************************************************)
(* AIEditor: the script of the active goal and the script buttons          *)
(***************************************************************************)

\* Most goals of the selected map, and of another map, when the scripts are exercised.
MaxScriptGoals == 2
MaxOtherGoals == 1

\* The script goal.decompile() makes of the bytecode.
Decompiled == "x"

\* The texts the user can leave in the script editor.
EditorTexts == Scripts \cup {"y"}

\* No file of the goal's script name is in the project's ai_scripts folder.
NoFile == "<no file>"

\* No script file has been written.
NoWrite == [op |-> "none", script |-> "", editor_text |-> ""]

script_goal(i, script) ==
    [goal_id |-> i - 1, goal_type |-> "battle", goal_name |-> <<"Goal">>, script |-> script]

\* The goal lists of up to n battle goals, each with or without a script.
ScriptGoalLists(n) ==
    UNION {{[i \in 1..k |-> script_goal(i, f[i])] : f \in [1..k -> Scripts]} : k \in 0..n}

\* The script widgets as AIEditor.build() leaves them.
build_scripts(allow_decompile, bytecode) ==
    [allow_decompile |-> allow_decompile,
     bytecode |-> bytecode,
     decompile_button |-> "disabled",
     decompile_all_button |->
        [state |-> button_state(allow_decompile),
         text |-> IF allow_decompile THEN "Decompile All" ELSE "Cannot Decompile"],
     write_all_button |-> [state |-> "normal", text |-> "Write All in Map"],
     written |-> NoWrite]

\* The editor with its script side, for the handlers that change both.
ScriptState == [ai |-> AIState, sc |-> scripts]

ScriptsBecome(P) == \E after \in {P} : AIBecomes(after.ai) /\ scripts' = after.sc

\* What the script handlers leave alone, besides the maps.
not_script_vars == <<qt_vars, param_vars, param_search, widget_vars, tab>>

\* goal.bytecode is not empty.
has_bytecode(X, map, goal) == <<map, goal.goal_id, goal.goal_type>> \in X.bytecode

set_script(S, pos, script) == [S EXCEPT !.goals[pos].script = script]

update_script_text(S) == [S EXCEPT !.editor.text = get_goal(S, S.active).script]

\* select_entry_row_index() with the Decompile button it sets along with the others.
select_row(P, map, row_index, check_unsaved, lose_changes) ==
    LET S == P.ai
        R == select_entry_row_index(S, row_index, TRUE, FALSE, check_unsaved, lose_changes)
        buttons_set == R.active = row_index /\ ~(S.active = row_index /\ row_index # None)
    IN  [ai |-> R,
         sc |-> IF ~buttons_set THEN P.sc
                ELSE IF row_index = None THEN [P.sc EXCEPT !.decompile_button = "disabled"]
                ELSE IF P.sc.allow_decompile
                THEN [P.sc EXCEPT !.decompile_button =
                                    button_state(has_bytecode(P.sc, map, get_goal(R, row_index)))]
                ELSE P.sc]

confirm_selected(S) ==
    IF S.buttons.confirm = "normal" /\ S.active # None /\ S.editor.text # ""
    THEN set_script(S, row_goal_position(S, S.active), S.editor.text)
    ELSE S

compile_selected(P, map, lua_error) ==
    LET S == P.ai
    IN  IF S.buttons.compile = "normal" /\ S.active # None
        THEN LET C == confirm_selected(S)
                 G == set_script(C, row_goal_position(C, C.active), C.editor.text)
                 goal == get_goal(G, G.active)
             IN  IF lua_error THEN [ai |-> G, sc |-> P.sc]
                 ELSE [ai |-> G,
                       sc |-> [P.sc EXCEPT
                                 !.bytecode = @ \cup {<<map, goal.goal_id, goal.goal_type>>},
                                 !.decompile_button =
                                     IF P.sc.allow_decompile THEN "normal" ELSE @]]
        ELSE P

decompile_selected(P, overwrite, lua_error) ==
    LET S == P.ai
    IN  IF P.sc.decompile_button = "normal" /\ S.active # None
        THEN IF get_goal(S, S.active).script # "" /\ ~overwrite THEN P
             ELSE IF lua_error THEN P
             ELSE [P EXCEPT
                     !.ai = update_script_text(
                               [set_script(S, row_goal_position(S, S.active), Decompiled)
                                   EXCEPT !.buttons.confirm = "normal",
                                          !.buttons.compile = "normal",
                                          !.buttons.write = "normal"])]
        ELSE P

write_selected(P, lua_error) ==
    LET S == P.ai
    IN  IF S.buttons.write = "normal" /\ S.active # None
        THEN LET C == confirm_selected(S)
             IN  IF lua_error THEN [P EXCEPT !.ai = C]
                 ELSE [ai |-> C,
                       sc |-> [P.sc EXCEPT !.written =
                                 [op |-> "write_selected",
                                  script |-> get_goal(C, C.active).script,
                                  editor_text |-> C.editor.text]]]
        ELSE P

reload_selected(P, lose_changes, file) ==
    LET S == P.ai
    IN  IF S.buttons.reload = "normal" /\ S.active # None
        THEN IF ~_ignored_unsaved(S, lose_changes) THEN P
             ELSE IF file = NoFile THEN P
             ELSE [P EXCEPT !.ai = update_script_text(
                                      set_script(S, row_goal_position(S, S.active), file))]
        ELSE P

\* The goals after a loop over them that stops at position `stop` and, before it, gives
\* `script` to the goals at the positions of `reached`.
goals_after_loop(gs, reached, stop, script) ==
    [j \in 1..Len(gs) |-> IF j \in reached /\ j < stop THEN [gs[j] EXCEPT !.script = script]
                          ELSE gs[j]]

\* Where a loop stops: at the goal whose error made the user abort, or past the last goal.
loop_stop(gs, abort_at) == IF abort_at = 0 THEN Len(gs) + 1 ELSE abort_at

\* The goals a bulk operation works on.
with_bytecode(P, map) == {j \in 1..Len(P.ai.goals) : has_bytecode(P.sc, map, P.ai.goals[j])}
with_script(P) == {j \in 1..Len(P.ai.goals) : P.ai.goals[j].script # ""}

decompile_all(P, map, confirmed, fails, abort_at) ==
    LET S == P.ai
        D == [S EXCEPT !.goals = goals_after_loop(S.goals, with_bytecode(P, map) \ fails,
                                                  loop_stop(S.goals, abort_at), Decompiled)]
    IN  IF ~confirmed THEN P
        ELSE IF abort_at # 0
        THEN [ai |-> D,
              sc |-> [P.sc EXCEPT !.decompile_all_button =
                                      [state |-> "disabled", text |-> "Decompiling..."]]]
        ELSE [ai |-> IF D.active # None THEN update_script_text(D) ELSE D,
              sc |-> [P.sc EXCEPT !.decompile_all_button =
                                      [state |-> "normal", text |-> "Decompile All"]]]

write_all(P, confirmed, fails, abort_at) ==
    IF ~confirmed THEN P
    ELSE IF abort_at # 0
    THEN [P EXCEPT !.sc.write_all_button = [state |-> "disabled", text |-> "Writing..."]]
    ELSE [P EXCEPT !.sc.write_all_button = [state |-> "normal", text |-> "Write All"]]

load_all_from_project_folder(P, confirmed, files, file, fails, abort_at) ==
    LET S == P.ai
        D == [S EXCEPT !.goals = goals_after_loop(S.goals, files \ fails,
                                                  loop_stop(S.goals, abort_at), file)]
    IN  IF ~confirmed THEN P
        ELSE IF abort_at # 0 THEN [P EXCEPT !.ai = D]
        ELSE [P EXCEPT !.ai = IF D.active # None THEN update_script_text(D) ELSE D]

\* ---- the handlers as actions ----

script_row_clicked(row_index, lose_changes) ==
    /\ tab = "ai"
    /\ row_index \in 0..(Len(entry_rows) - 1)
    /\ ScriptsBecome(select_row(ScriptState, selected_map_id, row_index, TRUE, lose_changes))
    /\ ai_call' = NoCall
    /\ UNCHANGED <<map_vars, not_script_vars>>

confirm_selected_called ==
    /\ tab = "ai"
    /\ AIBecomes(confirm_selected(AIState))
    /\ ai_call' = NoCall
    /\ UNCHANGED <<map_vars, not_ai_vars>>

compile_selected_called(lua_error) ==
    /\ tab = "ai"
    /\ ScriptsBecome(compile_selected(ScriptState, selected_map_id, lua_error))
    /\ ai_call' = NoCall
    /\ UNCHANGED <<map_vars, not_script_vars>>

decompile_selected_called(overwrite, lua_error) ==
    /\ tab = "ai"
    /\ ScriptsBecome(decompile_selected(ScriptState, overwrite, lua_error))
    /\ ai_call' = NoCall
    /\ UNCHANGED <<map_vars, not_script_vars>>

write_selected_called(lua_error) ==
    /\ tab = "ai"
    /\ ScriptsBecome(write_selected(ScriptState, lua_error))
    /\ ai_call' = NoCall
    /\ UNCHANGED <<map_vars, not_script_vars>>

reload_selected_called(lose_changes, file) ==
    /\ tab = "ai"
    /\ ScriptsBecome(reload_selected(ScriptState, lose_changes, file))
    /\ ai_call' = NoCall
    /\ UNCHANGED <<map_vars, not_script_vars>>

decompile_all_clicked(confirmed, fails, abort_at) ==
    /\ tab = "ai"
    /\ scripts.decompile_all_button.state = "normal"
    /\ fails \subseteq with_bytecode(ScriptState, selected_map_id)
    /\ abort_at \in fails \cup {0}
    /\ ScriptsBecome(decompile_all(ScriptState, selected_map_id, confirmed, fails, abort_at))
    /\ ai_call' = Call("decompile_all", IF confirmed THEN "confirmed" ELSE "declined",
                       NoCall.key, 0)
    /\ UNCHANGED <<map_vars, not_script_vars>>

write_all_clicked(confirmed, fails, abort_at) ==
    /\ tab = "ai"
    /\ scripts.write_all_button.state = "normal"
    /\ fails \subseteq with_script(ScriptState)
    /\ abort_at \in fails \cup {0}
    /\ ScriptsBecome(write_all(ScriptState, confirmed, fails, abort_at))
    /\ ai_call' = Call("write_all", IF confirmed THEN "confirmed" ELSE "declined",
                       NoCall.key, 0)
    /\ UNCHANGED <<map_vars, not_script_vars>>

load_all_clicked(confirmed, files, file, fails, abort_at) ==
    /\ tab = "ai"
    /\ files \subseteq 1..Len(goals)
    /\ fails \subseteq files
    /\ abort_at \in fails \cup {0}
    /\ ScriptsBecome(load_all_from_project_folder(ScriptState, confirmed, files, file, fails,
                                                  abort_at))
    /\ ai_call' = NoCall
    /\ UNCHANGED <<map_vars, not_script_vars>>

\* on_map_choice(), with the Decompile button.
script_map_chosen(choice, lose_changes) ==
    /\ tab = "ai"
    /\ IF on_map_choice_stays(AIState, lose_changes)
       THEN /\ map_choice' = selected_map_id
            /\ UNCHANGED <<ai_vars, selected_map_id, ai_other_maps, scripts>>
       ELSE /\ selected_map_id' = choice
            /\ map_choice' = choice
            /\ ai_other_maps' = other_maps_after(choice)
            /\ \E P \in {select_row([ScriptState EXCEPT
                                        !.ai.goals = selected_goals_after(choice)],
                                    choice, None, FALSE, TRUE)} :
                  ScriptsBecome([P EXCEPT !.ai = refresh_entries(P.ai, TRUE)])
            /\ ai_call' = NoCall
    /\ UNCHANGED <<action_history, not_script_vars>>

\* The goals that fail in a loop over the goals of `over`, and the one at which the user
\* aborts the rest (0 when the loop runs to its end).
Failures(over) == {<<fails, abort_at>> : fails \in SUBSET over, abort_at \in over \cup {0}}
                      \cap {fa \in (SUBSET over) \X (over \cup {0}) : fa[2] \in fa[1] \cup {0}}

\* Selecting rows, typing in the script editor and 'Decompile All'.
SelectionNext ==
    \/ ai_refresh_entries
    \/ \E i \in 0..(MaxScriptGoals - 1), lose_changes \in LoseChanges :
            script_row_clicked(i, lose_changes)
    \/ \E text \in EditorTexts : edit_script_text(text)
    \/ \E fa \in Failures(with_bytecode(ScriptState, selected_map_id)) :
            decompile_all_clicked(TRUE, fa[1], fa[2])
    \/ decompile_all_clicked(FALSE, {}, 0)

\* The operations that set the buttons of the active script or change the stored scripts
\* without the script editor.
ButtonsNext ==
    \/ SelectionNext
    \/ \E lose_changes \in LoseChanges, file \in Scripts \cup {NoFile} :
            reload_selected_called(lose_changes, file)
    \/ \E overwrite, lua_error \in BOOLEAN : decompile_selected_called(overwrite, lua_error)
    \/ \E files \in SUBSET (1..Len(goals)), file \in Scripts :
            \E fa \in Failures(files) : load_all_clicked(TRUE, files, file, fa[1], fa[2])
    \/ load_all_clicked(FALSE, {}, "", {}, 0)
    \/ \E choice \in Maps, lose_changes \in LoseChanges : script_map_chosen(choice, lose_changes)

\* The operations that store the text of the script editor and write script files.
ScriptsNext ==
    \/ SelectionNext
    \/ confirm_selected_called
    \/ \E lua_error \in BOOLEAN : compile_selected_called(lua_error)
    \/ \E lua_error \in BOOLEAN : write_selected_called(lua_error)
    \/ \E fa \in Failures(with_script(ScriptState)) : write_all_clicked(TRUE, fa[1], fa[2])
    \/ write_all_clicked(FALSE, {}, 0)

\* The keys of the goals of every map, with their map.
AllBytecodeKeys ==
    {<<selected_map_id, goals[j].goal_id, goals[j].goal_type>> : j \in 1..Len(goals)}
        \cup UNION {{<<m, ai_other_maps[m][j].goal_id, ai_other_maps[m][j].goal_type>> :
                        j \in 1..Len(ai_other_maps[m])} : m \in Maps \ {FirstMap}}

ScriptsInit ==
    /\ tab = "ai"
    /\ QtIdle
    /\ WidgetsIdle
    /\ ParamsIdle
    /\ selected_map_id = FirstMap
    /\ map_choice = FirstMap
    /\ goals \in ScriptGoalLists(MaxScriptGoals)
    /\ ai_other_maps \in [Maps \ {FirstMap} -> ScriptGoalLists(MaxOtherGoals)]
    /\ action_history = <<>>
    /\ scripts \in {build_scripts(allow_decompile, bytecode) :
                        allow_decompile \in BOOLEAN, bytecode \in SUBSET AllBytecodeKeys}
    /\ entry_rows = <<>>
    /\ active_row_index = None
    /\ e_entry_text_edit = None
    /\ e_entry_id_edit = None
    /\ lua_script_editor = [state |-> "disabled", text |-> ""]
    /\ buttons = [confirm |-> "disabled", compile |-> "disabled", write |-> "disabled",
                  reload |-> "normal"]
    /\ ai_call = NoCall

\* The editor of a project with one map.
OneMapInit == ScriptsInit /\ \A m \in Maps \ {FirstMap} : ai_other_maps[m] = <<>>

SpecScripts == OneMapInit /\ [][ScriptsNext]_vars

SpecButtons == ScriptsInit /\ [][ButtonsNext]_vars

\* C23: when write_selected writes a script file, the script it writes (the goal's stored
\* script) is the current text of the script editor, an emptied editor included.
C23_WriteSelectedWritesEditorText ==
    scripts.written.op = "write_selected" =>
        scripts.written.script = scripts.written.editor_text

\* C27: with a row active the Confirm, Compile and Write buttons are enabled exactly when
\* the active goal has a non-empty stored script; with no row active the Confirm, Compile,
\* Write, Decompile and Reload buttons are all disabled.
C27_ScriptButtonsFollowActiveGoal ==
    IF active_row_index # None
    THEN \A button \in {buttons.confirm, buttons.compile, buttons.write} :
            button = button_state(get_goal(AIState, active_row_index).script # "")
    ELSE \A button \in {buttons.confirm, buttons.compile, buttons.write, buttons.reload,
                        scripts.decompile_button} :
            button = "disabled"

\* C28: a decompile_all() or write_all() that passed its confirmation has returned with its
\* button 'normal' and the label the button had before: 'Decompile All', 'Write All in Map'.
C28_BulkButtonRestored ==
    /\ (ai_call.op = "decompile_all" /\ ai_call.result = "confirmed") =>
            scripts.decompile_all_button = [state |-> "normal", text |-> "Decompile All"]
    /\ (ai_call.op = "write_all" /\ ai_call.result = "confirmed") =>
            scripts.write_all_button = [state |-> "normal", text |-> "Write All in Map"]

(***************************************************************************)
(* AIEditor: cycling the type of a goal                                    *)
(***************************************************************************)

\* A click on the type label of a row: set_goal_type(i) on the left button,
\* set_goal_type(i, reverse=True) on the right one.
goal_type_clicked(row_index, reverse, add_suffix) ==
    /\ tab = "ai"
    /\ row_index \in 0..(Len(entry_rows) - 1)
    /\ \E R \in {set_goal_type(AIState, row_index, reverse, add_suffix)} :
        /\ AIBecomes(R)
        /\ ai_call' = Call("set_goal_type",
                           IF R.goals = goals THEN "unchanged" ELSE "changed",
                           goal_key(get_goal(AIState, row_index)), row_index)
    /\ UNCHANGED <<map_vars, not_ai_vars>>

GoalTypeNext ==
    \/ ai_refresh_entries
    \/ \E i \in 0..(MaxGoals - 1), reverse \in BOOLEAN :
            \E add_suffix \in AddSuffix(i, reverse) : goal_type_clicked(i, reverse, add_suffix)

SpecGoalType == RefreshInit /\ [][GoalTypeNext]_vars

\* No goal of another type has the ID of the goal of this row.
id_of_one_type(S, row_index) ==
    \A j \in 1..Len(S.goals) :
        S.goals[j].goal_id = get_goal(S, row_index).goal_id => j = row_goal_position(S, row_index)

\* The type of the goal that was at position pos.
type_at(S, pos) == S.goals[pos].goal_type

\* Three calls of set_goal_type on a row in one direction, then one back, with the answers
\* given to 'Add suffix to name?': the types follow the cycle and return to the first.
cycles(S, row_index, reverse, answers) ==
    LET pos == row_goal_position(S, row_index)
        R1 == set_goal_type(S, row_index, reverse, answers[1])
        R2 == set_goal_type(R1, row_index, reverse, answers[2])
        R3 == set_goal_type(R2, row_index, reverse, answers[3])
        B1 == set_goal_type(R1, row_index, ~reverse, answers[2])
    IN  /\ type_at(R1, pos) = next_goal_type(type_at(S, pos), reverse)
        /\ type_at(R2, pos) = next_goal_type(type_at(R1, pos), reverse)
        /\ type_at(R3, pos) = type_at(S, pos)
        /\ type_at(R1, pos) # type_at(S, pos) /\ type_at(R2, pos) # type_at(S, pos)
        /\ type_at(R2, pos) # type_at(R1, pos)
        /\ type_at(B1, pos) = type_at(S, pos)
        /\ reverse => type_at(R1, pos) = next_goal_type(next_goal_type(type_at(S, pos), FALSE), FALSE)

\* C25: for a goal whose ID no goal of another type has, set_goal_type cycles the type:
\* Battle, Logic, Unknown, Battle forward, the opposite order in reverse, and a call
\* followed by a call the other way restores the type; whatever the user answers.
C25_SetGoalTypeCycles ==
    \A i \in 0..(Len(entry_rows) - 1) :
        id_of_one_type(AIState, i) =>
            \A reverse \in BOOLEAN, answers \in [1..3 -> BOOLEAN] :
                cycles(AIState, i, reverse, answers)

\* C25, amended: the type cycles when the user accepts the '_Logic' suffix each time it is
\* asked for; a call that asks and is answered 'No, do nothing' changes nothing.
C25_SetGoalTypeCyclesWhenSuffixAccepted ==
    \A i \in 0..(Len(entry_rows) - 1) :
        id_of_one_type(AIState, i) =>
            /\ \A reverse \in BOOLEAN : cycles(AIState, i, reverse, [k \in 1..3 |-> TRUE])
            /\ \A reverse \in BOOLEAN :
                  goal_type_raises(get_goal(AIState, i).goal_name,
                                   next_goal_type(get_goal(AIState, i).goal_type, reverse))
                      => set_goal_type(AIState, i, reverse, FALSE) = AIState

\* A click has just moved a battle goal that alone has its ID on to the logic type.
C25_Witness ==
    /\ ai_call.op = "set_goal_type"
    /\ ai_call.result = "changed"
    /\ id_of_one_type(AIState, ai_call.id)
    /\ get_goal(AIState, ai_call.id).goal_type = "logic"
    /\ ai_call.key[2] = "battle"

(***************************************************************************)
(* ParamsEditor: the row search and its ParamFinder dialog                 *)
(***************************************************************************)

\* Most conditions of a search, and the largest value a condition compares with.
MaxConditions == 2
MaxConditionValue == 1

\* ParamFieldComparisonType values the search is exercised with.
Comparisons == {"==", "!="}

\* ParamFieldSearchCondition(field_nickname, comparison, value), all on one field.
SearchConditions == [comparison : Comparisons, value : 0..MaxConditionValue]

\* The value of that field in a row: the rows are told apart by it, as by their IDs.
field_value(row) == row.id

meets(row, condition) ==
    IF condition.comparison = "==" THEN field_value(row) = condition.value
    ELSE field_value(row) # condition.value

\* find_param_rows(param, conditions): the IDs of the rows that meet every condition, in
\* the order of the param.
RECURSIVE find_param_rows(_, _)
find_param_rows(rows, conditions) ==
    IF rows = <<>> THEN <<>>
    ELSE LET front == find_param_rows(SubSeq(rows, 1, Len(rows) - 1), conditions)
             row == rows[Len(rows)]
         IN  IF \A k \in 1..Len(conditions) : meets(row, conditions[k])
             THEN Append(front, row.id)
             ELSE front

\* No ParamFinder is open.
NoFinder == [open |-> FALSE, conditions |-> <<>>, shares_list |-> FALSE]

\* No set_field_conditions() is on record.
NoSearchCall == [op |-> "none", row_conditions |-> <<>>, found_rows |-> <<>>]

\* The search as ParamsEditor.__init__ and build() leave it.
build_search ==
    [row_conditions |-> <<>>, found_rows |-> <<>>, found_row_index |-> 0,
     go_to_next_found_row_button |-> "disabled", clear_search_button |-> "disabled",
     finder |-> NoFinder, call |-> NoSearchCall]

\* ParamFinder(..., initial_conditions=self.row_conditions): a list that is not empty
\* becomes self.conditions itself, not a copy.
ParamFinder_shares_list(initial_conditions) == initial_conditions # <<>>

ParamFinder_init(initial_conditions) ==
    [open |-> TRUE, conditions |-> initial_conditions,
     shares_list |-> ParamFinder_shares_list(initial_conditions)]

\* A change of ParamFinder.conditions in place reaches the editor's list when it is the
\* same list.
conditions_become(X, conditions) ==
    [X EXCEPT !.finder.conditions = conditions,
              !.row_conditions = IF X.finder.shares_list THEN conditions ELSE @]

\* What the handlers of the search leave alone, besides the rows and their display.
not_search_vars == <<qt_vars, ai_vars, map_vars, scripts, widget_vars, tab>>

\* set_field_conditions(), up to param_finder.go(): the dialog opens.
set_field_conditions_called ==
    /\ tab = "params"
    /\ ~param_search.finder.open
    /\ param_search' =
          [param_search EXCEPT
              !.finder = ParamFinder_init(param_search.row_conditions),
              !.call = [op |-> "open", row_conditions |-> param_search.row_conditions,
                        found_rows |-> param_search.found_rows]]
    /\ UNCHANGED <<param_vars, not_search_vars>>

\* 'Add Condition' in the dialog, with a field, a comparison and a value entered.
_add_condition(condition) ==
    /\ tab = "params"
    /\ param_search.finder.open
    /\ Len(param_search.finder.conditions) < MaxConditions
    /\ param_search' =
          conditions_become(param_search, Append(param_search.finder.conditions, condition))
    /\ UNCHANGED <<param_vars, not_search_vars>>

\* A double click in the dialog's list with the condition at `selection` selected.
_remove_condition(selection) ==
    /\ tab = "params"
    /\ param_search.finder.open
    /\ selection \in 0..(Len(param_search.finder.conditions) - 1)
    /\ param_search' =
          conditions_become(param_search,
                            list_remove_at(param_search.finder.conditions, selection + 1))
    /\ UNCHANGED <<param_vars, not_search_vars>>

\* ParamFinder.done(confirm) and the rest of set_field_conditions().
ParamFinder_done(confirm) ==
    /\ tab = "params"
    /\ param_search.finder.open
    /\ param_search' =
          IF confirm
          THEN LET new_conditions == param_search.finder.conditions
                   found_rows == find_param_rows(param_rows, new_conditions)
               IN  [param_search EXCEPT
                       !.row_conditions = new_conditions,
                       !.found_rows = found_rows,
                       !.go_to_next_found_row_button =
                            IF found_rows # <<>> THEN "normal" ELSE @,
                       !.clear_search_button = IF found_rows # <<>> THEN "normal" ELSE @,
                       !.finder = NoFinder,
                       !.call = NoSearchCall]
          ELSE [param_search EXCEPT !.finder = NoFinder, !.call.op = "cancelled"]
    /\ UNCHANGED <<param_vars, not_search_vars>>

\* 'Go to Next Hit'.
go_to_next_found_row ==
    /\ tab = "params"
    /\ ~param_search.finder.open
    /\ param_search.go_to_next_found_row_button = "normal"
    /\ IF param_search.found_rows = <<>>
       THEN /\ param_search' = [param_search EXCEPT !.call = NoSearchCall]
            /\ UNCHANGED param_vars
       ELSE LET found_row_index ==
                    (param_search.found_row_index + 1) % Len(param_search.found_rows)
                row_id == param_search.found_rows[found_row_index + 1]
                selected == params_select_entry_id(param_rows, row_id)
            IN  /\ param_search' = [param_search EXCEPT !.found_row_index = found_row_index,
                                                        !.call = NoSearchCall]
                /\ param_entry_rows' = selected.entry_rows
                /\ param_first_display_index' = selected.first_display_index
                /\ param_active_row_index' = selected.active_row_index
                /\ UNCHANGED <<param_rows, param_call, param_before>>
    /\ UNCHANGED not_search_vars

\* 'Clear Search'.
clear_search ==
    /\ tab = "params"
    /\ ~param_search.finder.open
    /\ param_search.clear_search_button = "normal"
    /\ param_search' = [param_search EXCEPT !.row_conditions = <<>>,
                                            !.go_to_next_found_row_button = "disabled",
                                            !.clear_search_button = "disabled",
                                            !.call = NoSearchCall]
    /\ UNCHANGED <<param_vars, not_search_vars>>

SearchNext ==
    \/ set_field_conditions_called
    \/ \E condition \in SearchConditions : _add_condition(condition)
    \/ \E selection \in 0..(MaxConditions - 1) : _remove_condition(selection)
    \/ \E confirm \in BOOLEAN : ParamFinder_done(confirm)
    \/ go_to_next_found_row
    \/ clear_search

\* The ParamsEditor on a param whose rows all have the same name.
SearchInit ==
    /\ tab = "params"
    /\ QtIdle
    /\ WidgetsIdle
    /\ AIIdle
    /\ param_rows \in {rows \in LoadedRows(MaxParamId) :
                          \A i \in 1..Len(rows) : rows[i].data.Name = "a"}
    /\ param_entry_rows = params_displayed_rows(param_rows)
    /\ param_first_display_index = 0
    /\ param_active_row_index = None
    /\ param_call = [op |-> "init", clash |-> FALSE, store_kept |-> TRUE]
    /\ param_before = NoParamBefore
    /\ param_search = build_search

SpecSearch == SearchInit /\ [][SearchNext]_vars

\* C24: the 'Go to Next Hit' button is enabled only when found_rows is not empty.
C24_NextHitEnabledOnlyWithHits ==
    param_search.go_to_next_found_row_button = "normal" => param_search.found_rows # <<>>

\* C26: after the ParamFinder was cancelled, row_conditions and found_rows are what they
\* were when set_field_conditions() was called.
C26_CancelLeavesSearchUnchanged ==
    param_search.call.op = "cancelled" =>
        /\ param_search.row_conditions = param_search.call.row_conditions
        /\ param_search.found_rows = param_search.call.found_rows

====
